---------------------------- MODULE Spec2Model ----------------------------
(***************************************************************************)
(* TnP Portal backend: the application status machine and the campaign     *)
(* dispatch of the voice, email and messaging channels.                    *)
(*                                                                         *)
(* The state is the committed content of the `jobs`, `applications` and    *)
(* `profiles` tables, the wall clock read by datetime.utcnow(), and the    *)
(* HTTP response of the request of a user handled by the last step (none   *)
(* when that step was a clock tick, a step of an execution unit or a       *)
(* callback of the provider).  Every request                               *)
(* handler of app/api/actions.py, the handlers of app/api/applications.py  *)
(* that write an application, and mark_student_placed of app/api/users.py  *)
(* are one                                                                 *)
(* action each: a handler reads, validates, assigns and commits in one     *)
(* database transaction.  The role dependency (require_admin,              *)
(* require_student) has admitted the caller before a handler runs, so an   *)
(* admin handler has no caller parameter and a student handler is called   *)
(* by a student.  The model follows one application row (one job, two      *)
(* students who may apply for it).                                         *)
(*                                                                         *)
(* The campaign part holds one campaign with its delivery logs (`others`   *)
(* holds the delivery logs that belong to another campaign), the           *)
(* execution units queued by BackgroundTasks.add_task, the results the     *)
(* provider gave for each log, and the requests that are between their     *)
(* read and their commit.  Spec keeps the campaign part empty; the         *)
(* specifications further down (ApplySpec, CampaignSpec, RaceSpec,         *)
(* DispatchSpec, CancelSpec, LifecycleSpec, UnitSpec) start from their own *)
(* initial states; TransitionSpec splits reject and accept-offer into read *)
(* and commit.  `rendering` holds one message template, the variables of   *)
(* one recipient and what each channel renders from them; only RenderSpec  *)
(* fills it.                                                               *)
(***************************************************************************)
EXTENDS Integers, FiniteSets, Sequences, Bags, TLC

VARIABLES jobs, apps, profiles, now, response,
          applying, campaign, logs, units, calls, configured, contact, starting,
          others, rendering

tableVars == <<jobs, apps, profiles, now>>
campaignVars ==
    <<campaign, logs, units, calls, configured, contact, starting, others,
      rendering>>
vars == <<jobs, apps, profiles, now, response,
          applying, campaign, logs, units, calls, configured, contact,
          starting, others, rendering>>

---------------------------------------------------------------------------
(* Bounds of the model *)

MaxTime == 3          \* the clock runs over 0..MaxTime
TicksPerDay == 2      \* clock ticks in one day of timedelta(days=...)
MaxUnits == 2         \* execution units of one campaign queued or running
MaxApps == 3          \* rows the applications table can hold in ApplySpec
MaxLen == 6           \* characters of a message template in RenderSpec

---------------------------------------------------------------------------
(* Users, jobs and the values of the tables *)

Students == {"s1", "s2"}
Jobs == {"j1"}
AppIds == {1}

\* payload.deadline_days is an int that the schema does not validate
DEFAULT_DEADLINE_DAYS == 7
DeadlineDays == {-1, 0, 1, DEFAULT_DEADLINE_DAYS}

\* a nullable DateTime column: <<>> is NULL, <<t>> holds the instant t
None == <<>>
At(t) == <<t>>
NoJob == [exists |-> FALSE]
NoApp == [exists |-> FALSE]
NoProfile == [exists |-> FALSE]
NoResponse == [op |-> "none", result |-> "none"]

\* the campaign tables: recipients, channels, execution-unit slots
Recipients == {"r1", "r2"}
Channels == {"voice", "email", "whatsapp"}
NoCampaign == [exists |-> FALSE]

STATUSES ==
    {"APPLIED", "SELECTED", "IN_PROCESS", "INTERVIEW_SCHEDULED", "SHORTLISTED",
     "OFFER_RELEASED", "PLACED", "OFFER_DECLINED", "WITHDRAWN", "REJECTED"}

---------------------------------------------------------------------------
(* State machine configuration *)

ADMIN_TRANSITIONS ==
    [s \in {"APPLIED", "SELECTED", "IN_PROCESS", "INTERVIEW_SCHEDULED",
            "SHORTLISTED", "OFFER_RELEASED"} |->
        CASE s = "APPLIED" -> {"SELECTED", "REJECTED"}
          [] s = "SELECTED" -> {"IN_PROCESS", "REJECTED"}
          [] s = "IN_PROCESS" -> {"INTERVIEW_SCHEDULED", "REJECTED"}
          [] s = "INTERVIEW_SCHEDULED" -> {"SHORTLISTED", "REJECTED"}
          [] s = "SHORTLISTED" -> {"OFFER_RELEASED", "REJECTED"}
          [] s = "OFFER_RELEASED" -> {"REJECTED"}]

STUDENT_TRANSITIONS ==
    [s \in {"APPLIED", "OFFER_RELEASED"} |->
        CASE s = "APPLIED" -> {"WITHDRAWN"}
          [] s = "OFFER_RELEASED" -> {"PLACED", "OFFER_DECLINED"}]

TERMINAL_STATES == {"PLACED", "OFFER_DECLINED", "WITHDRAWN", "REJECTED"}

\* transitions.get(current_status, [])
Allowed(transitions, current_status) ==
    IF current_status \in DOMAIN transitions
    THEN transitions[current_status] ELSE {}

\* the membership test of the target is lost: any listed status may move
validate_transition_any_target(current_status, new_status, transitions) ==
    IF current_status \in TERMINAL_STATES
    THEN FALSE
    ELSE current_status \in DOMAIN transitions

validate_transition(current_status, new_status, transitions) ==
    IF current_status \in TERMINAL_STATES
    THEN FALSE
    ELSE new_status \in Allowed(transitions, current_status)

---------------------------------------------------------------------------
(* Responses *)

Respond(op, r) ==
    response' = [op |-> op, result |-> r]

\* raise HTTPException(...) before any assignment: nothing is written
Fail(op, r) ==
    /\ Respond(op, r)
    /\ UNCHANGED <<jobs, apps, profiles, now>>

\* a later datetime.utcnow() of the same handler: the clock may have moved
LaterReads == {t \in now..(now + 1) : t <= MaxTime}

---------------------------------------------------------------------------
(* Initial state: the job is posted and active (jobs.create_job), the       *)
(* registered students have their profile row (auth.register creates it   *)
(* with is_placed = False), and there is no application yet.               *)

TablesInit(ids) ==
    /\ jobs = [j \in Jobs |-> [exists |-> TRUE, is_active |-> TRUE]]
    /\ apps = [a \in ids |-> NoApp]
    /\ profiles = [s \in Students |-> [exists |-> TRUE, is_placed |-> FALSE]]
    /\ now = 0
    /\ response = NoResponse
    /\ applying = {}

\* no campaign has been created
NoCampaignRows ==
    /\ campaign = NoCampaign
    /\ logs = <<>>
    /\ units = EmptyBag
    /\ calls = <<>>
    /\ configured = TRUE
    /\ contact = <<>>
    /\ starting = {}
    /\ others = <<>>

\* no message is being rendered
NoRendering ==
    [template |-> <<>>, variables |-> <<>>, email |-> <<>>, whatsapp |-> <<>>]

NoCampaigns ==
    /\ NoCampaignRows
    /\ rendering = NoRendering

Init ==
    /\ TablesInit(AppIds)
    /\ NoCampaigns

---------------------------------------------------------------------------
(* Student: apply to a job.  The insert gets a fresh id; the unique        *)
(* constraint on (job_id, student_id) turns a duplicate into 409.          *)

\* db.query(Job).filter(Job.id == payload.job_id).first()
JobOf(j) == IF j \in DOMAIN jobs THEN jobs[j] ELSE NoJob

FreeIds == {a \in AppIds : ~apps[a].exists}

NewApplication(j, u) ==
    [exists |-> TRUE, job_id |-> j, student_id |-> u, status |-> "APPLIED",
     offer_released_at |-> None, offer_deadline |-> None,
     offer_responded_at |-> None]

apply_to_job(u, j) ==
    IF ~JobOf(j).exists THEN Fail("apply", "not_found")
    ELSE IF ~jobs[j].is_active THEN Fail("apply", "inactive_job")
    ELSE IF \E a \in AppIds :
                apps[a].exists /\ apps[a].job_id = j /\ apps[a].student_id = u
    THEN Fail("apply", "conflict")
    ELSE /\ FreeIds # {}
         /\ LET a == CHOOSE x \in FreeIds : \A y \in FreeIds : x <= y
            IN /\ apps' = [apps EXCEPT ![a] = NewApplication(j, u)]
               /\ Respond("apply", "ok")
         /\ UNCHANGED <<jobs, profiles, now>>

---------------------------------------------------------------------------
(* Admin actions *)

action_select(a) ==
    IF ~apps[a].exists THEN Fail("select", "not_found")
    ELSE IF ~validate_transition(apps[a].status, "SELECTED", ADMIN_TRANSITIONS)
    THEN Fail("select", "invalid_transition")
    ELSE /\ apps' = [apps EXCEPT ![a].status = "SELECTED"]
         /\ Respond("select", "ok")
         /\ UNCHANGED <<jobs, profiles, now>>

action_start_process(a) ==
    IF ~apps[a].exists THEN Fail("start_process", "not_found")
    ELSE IF ~validate_transition(apps[a].status, "IN_PROCESS", ADMIN_TRANSITIONS)
    THEN Fail("start_process", "invalid_transition")
    ELSE /\ apps' = [apps EXCEPT ![a].status = "IN_PROCESS"]
         /\ Respond("start_process", "ok")
         /\ UNCHANGED <<jobs, profiles, now>>

action_schedule_interview(a) ==
    IF ~apps[a].exists THEN Fail("schedule_interview", "not_found")
    ELSE IF ~validate_transition(apps[a].status, "INTERVIEW_SCHEDULED",
                                 ADMIN_TRANSITIONS)
    THEN Fail("schedule_interview", "invalid_transition")
    ELSE /\ apps' = [apps EXCEPT ![a].status = "INTERVIEW_SCHEDULED"]
         /\ Respond("schedule_interview", "ok")
         /\ UNCHANGED <<jobs, profiles, now>>

action_shortlist(a) ==
    IF ~apps[a].exists THEN Fail("shortlist", "not_found")
    ELSE IF ~validate_transition(apps[a].status, "SHORTLISTED", ADMIN_TRANSITIONS)
    THEN Fail("shortlist", "invalid_transition")
    ELSE /\ apps' = [apps EXCEPT ![a].status = "SHORTLISTED"]
         /\ Respond("shortlist", "ok")
         /\ UNCHANGED <<jobs, profiles, now>>

\* the offer is stamped before the transition is validated
action_release_offer_stamps_first(a, deadline_days) ==
    IF ~apps[a].exists THEN Fail("release_offer", "not_found")
    ELSE \E t2 \in LaterReads :
         /\ now' = t2
         /\ UNCHANGED <<jobs, profiles>>
         /\ IF ~validate_transition(apps[a].status, "OFFER_RELEASED",
                                    ADMIN_TRANSITIONS)
            THEN /\ apps' = [apps EXCEPT
                        ![a].offer_released_at = At(now),
                        ![a].offer_deadline =
                            At(t2 + deadline_days * TicksPerDay)]
                 /\ Respond("release_offer", "invalid_transition")
            ELSE /\ apps' = [apps EXCEPT
                        ![a].status = "OFFER_RELEASED",
                        ![a].offer_released_at = At(now),
                        ![a].offer_deadline =
                            At(t2 + deadline_days * TicksPerDay)]
                 /\ Respond("release_offer", "ok")

\* offer_released_at and offer_deadline come from two reads of the clock
action_release_offer(a, deadline_days) ==
    IF ~apps[a].exists THEN Fail("release_offer", "not_found")
    ELSE IF ~validate_transition(apps[a].status, "OFFER_RELEASED",
                                 ADMIN_TRANSITIONS)
    THEN Fail("release_offer", "invalid_transition")
    ELSE \E t2 \in LaterReads :
         /\ apps' = [apps EXCEPT
                ![a].status = "OFFER_RELEASED",
                ![a].offer_released_at = At(now),
                ![a].offer_deadline = At(t2 + deadline_days * TicksPerDay)]
         /\ now' = t2
         /\ Respond("release_offer", "ok")
         /\ UNCHANGED <<jobs, profiles>>

\* OFFER_DECLINED is missing from the terminal test
action_reject_reopens_declined(a) ==
    IF ~apps[a].exists THEN Fail("reject", "not_found")
    ELSE IF apps[a].status \in {"PLACED", "WITHDRAWN", "REJECTED"}
    THEN Fail("reject", "invalid_transition")
    ELSE /\ apps' = [apps EXCEPT ![a].status = "REJECTED"]
         /\ Respond("reject", "ok")
         /\ UNCHANGED <<jobs, profiles, now>>

action_reject(a) ==
    IF ~apps[a].exists THEN Fail("reject", "not_found")
    ELSE IF apps[a].status \in TERMINAL_STATES
    THEN Fail("reject", "invalid_transition")
    ELSE /\ apps' = [apps EXCEPT ![a].status = "REJECTED"]
         /\ Respond("reject", "ok")
         /\ UNCHANGED <<jobs, profiles, now>>

---------------------------------------------------------------------------
(* Student actions *)

\* db.query(Profile).filter(Profile.user_id == student_id).first()
ProfileOf(u) == IF u \in DOMAIN profiles THEN profiles[u] ELSE NoProfile

\* one tick of grace after the deadline
DeadlinePassed_grace(a) ==
    /\ apps[a].offer_deadline # None
    /\ now > apps[a].offer_deadline[1] + 1

\* the deadline instant itself counts as passed
DeadlinePassed_inclusive(a) ==
    /\ apps[a].offer_deadline # None
    /\ now >= apps[a].offer_deadline[1]

\* the deadline check of accept-offer, on the handler's first clock read
DeadlinePassed(a) ==
    /\ apps[a].offer_deadline # None
    /\ now > apps[a].offer_deadline[1]

\* the transition is validated before the ownership check
action_accept_offer_validates_first(u, a) ==
    IF ~apps[a].exists THEN Fail("accept_offer", "not_found")
    ELSE IF ~validate_transition(apps[a].status, "PLACED", STUDENT_TRANSITIONS)
    THEN Fail("accept_offer", "invalid_transition")
    ELSE IF apps[a].student_id # u THEN Fail("accept_offer", "forbidden")
    ELSE IF DeadlinePassed(a)
    THEN Fail("accept_offer", "deadline_passed")
    ELSE \E t2 \in LaterReads :
         /\ apps' = [apps EXCEPT ![a].status = "PLACED",
                                 ![a].offer_responded_at = At(t2)]
         /\ profiles' = IF ProfileOf(u).exists
                        THEN [profiles EXCEPT ![u].is_placed = TRUE]
                        ELSE profiles
         /\ now' = t2
         /\ Respond("accept_offer", "ok")
         /\ UNCHANGED jobs

action_accept_offer(u, a) ==
    IF ~apps[a].exists THEN Fail("accept_offer", "not_found")
    ELSE IF apps[a].student_id # u THEN Fail("accept_offer", "forbidden")
    ELSE IF ~validate_transition(apps[a].status, "PLACED", STUDENT_TRANSITIONS)
    THEN Fail("accept_offer", "invalid_transition")
    ELSE IF DeadlinePassed(a)
    THEN Fail("accept_offer", "deadline_passed")
    ELSE \E t2 \in LaterReads :
         /\ apps' = [apps EXCEPT ![a].status = "PLACED",
                                 ![a].offer_responded_at = At(t2)]
         /\ profiles' = IF ProfileOf(u).exists
                        THEN [profiles EXCEPT ![u].is_placed = TRUE]
                        ELSE profiles
         /\ now' = t2
         /\ Respond("accept_offer", "ok")
         /\ UNCHANGED jobs

action_decline_offer(u, a) ==
    IF ~apps[a].exists THEN Fail("decline_offer", "not_found")
    ELSE IF apps[a].student_id # u THEN Fail("decline_offer", "forbidden")
    ELSE IF ~validate_transition(apps[a].status, "OFFER_DECLINED",
                                 STUDENT_TRANSITIONS)
    THEN Fail("decline_offer", "invalid_transition")
    ELSE /\ apps' = [apps EXCEPT ![a].status = "OFFER_DECLINED",
                                 ![a].offer_responded_at = At(now)]
         /\ Respond("decline_offer", "ok")
         /\ UNCHANGED <<jobs, profiles, now>>

\* the status written by PATCH /applications/{id}/withdraw
WithdrawStatus == "REJECTED"

withdraw_application(u, a) ==
    IF ~apps[a].exists THEN Fail("withdraw", "not_found")
    ELSE IF apps[a].student_id # u THEN Fail("withdraw", "forbidden")
    ELSE IF apps[a].status # "APPLIED"
    THEN Fail("withdraw", "invalid_transition")
    ELSE /\ apps' = [apps EXCEPT ![a].status = WithdrawStatus]
         /\ Respond("withdraw", "ok")
         /\ UNCHANGED <<jobs, profiles, now>>

---------------------------------------------------------------------------
(* Admin: PATCH /applications/{id}/status writes payload.status as given,  *)
(* PATCH /users/{id}/mark-placed sets the profile flag.                    *)

update_application_status(a, new_status) ==
    IF ~apps[a].exists THEN Fail("update_status", "not_found")
    ELSE /\ apps' = [apps EXCEPT ![a].status = new_status]
         /\ Respond("update_status", "ok")
         /\ UNCHANGED <<jobs, profiles, now>>

mark_student_placed(s) ==
    IF ~ProfileOf(s).exists THEN Fail("mark_placed", "not_found")
    ELSE IF profiles[s].is_placed THEN Fail("mark_placed", "already_placed")
    ELSE /\ profiles' = [profiles EXCEPT ![s].is_placed = TRUE]
         /\ Respond("mark_placed", "ok")
         /\ UNCHANGED <<jobs, apps, now>>

---------------------------------------------------------------------------
(* The clock moves between requests; no request is answered by a tick. *)

Tick ==
    /\ now < MaxTime
    /\ now' = now + 1
    /\ response' = NoResponse
    /\ UNCHANGED <<jobs, apps, profiles>>

\* a request on the application tables leaves the campaign part alone
OnTables(A) ==
    /\ A
    /\ UNCHANGED <<applying, campaignVars>>

Next ==
    \/ \E u \in Students, j \in Jobs : OnTables(apply_to_job(u, j))
    \/ \E a \in AppIds : OnTables(action_select(a))
    \/ \E a \in AppIds : OnTables(action_start_process(a))
    \/ \E a \in AppIds : OnTables(action_schedule_interview(a))
    \/ \E a \in AppIds : OnTables(action_shortlist(a))
    \/ \E a \in AppIds, d \in DeadlineDays :
            OnTables(action_release_offer(a, d))
    \/ \E a \in AppIds : OnTables(action_reject(a))
    \/ \E u \in Students, a \in AppIds : OnTables(action_accept_offer(u, a))
    \/ \E u \in Students, a \in AppIds : OnTables(action_decline_offer(u, a))
    \/ \E u \in Students, a \in AppIds : OnTables(withdraw_application(u, a))
    \/ \E a \in AppIds, s \in STATUSES :
            OnTables(update_application_status(a, s))
    \/ \E s \in Students : OnTables(mark_student_placed(s))
    \/ OnTables(Tick)

Spec == Init /\ [][Next]_vars

---------------------------------------------------------------------------
(* Properties of the status machine.                                       *)
(*                                                                         *)
(* A property about an operation is an action property: its antecedent is *)
(* the operation's own action, so it speaks of every step that operation   *)
(* can take.  The expected result is written out from the tables of        *)
(* section 4.1 of the specification, not through validate_transition.      *)
(* A refused request changes only `response`; it is a stuttering step only *)
(* where `response` already holds the same answer, and every content of    *)
(* the tables is first reached by a step answering "ok" or by a tick, so   *)
(* each refusal is examined in that state.                                 *)

NonTerminal ==
    {"APPLIED", "SELECTED", "IN_PROCESS", "INTERVIEW_SCHEDULED", "SHORTLISTED",
     "OFFER_RELEASED"}

Terminal == {"PLACED", "OFFER_DECLINED", "WITHDRAWN", "REJECTED"}

AdminEdges ==
    {<<"APPLIED", "SELECTED">>, <<"SELECTED", "IN_PROCESS">>,
     <<"IN_PROCESS", "INTERVIEW_SCHEDULED">>,
     <<"INTERVIEW_SCHEDULED", "SHORTLISTED">>,
     <<"SHORTLISTED", "OFFER_RELEASED">>}
    \cup {<<s, "REJECTED">> : s \in NonTerminal}

StudentEdges ==
    {<<"APPLIED", "WITHDRAWN">>, <<"OFFER_RELEASED", "PLACED">>,
     <<"OFFER_RELEASED", "OFFER_DECLINED">>}

IsOwner(u, a) == apps[a].exists /\ apps[a].student_id = u

\* the offer fields of the application and the owner's flag keep their values
OfferAndFlagUnchanged(a) ==
    /\ apps'[a].status = apps[a].status
    /\ apps'[a].offer_released_at = apps[a].offer_released_at
    /\ apps'[a].offer_deadline = apps[a].offer_deadline
    /\ apps'[a].offer_responded_at = apps[a].offer_responded_at
    /\ profiles' = profiles

\* C1: once an application's status is PLACED, OFFER_DECLINED, WITHDRAWN or
\* REJECTED, no step of any operation changes that status.
C1_TerminalStatusIsFinal ==
    [][\A a \in AppIds :
          (apps[a].exists /\ apps[a].status \in Terminal)
          => (apps'[a].exists /\ apps'[a].status = apps[a].status)]_vars

\* C2: every change of an application's status is an edge of the admin
\* table, an edge of the student table, or a change to REJECTED from a
\* non-terminal status.
C2_EveryChangeIsAnEdge ==
    [][\A a \in AppIds :
          (apps[a].exists /\ apps'[a].exists
              /\ apps'[a].status # apps[a].status)
          => \/ <<apps[a].status, apps'[a].status>> \in AdminEdges
             \/ <<apps[a].status, apps'[a].status>> \in StudentEdges
             \/ (apps[a].status \in NonTerminal
                    /\ apps'[a].status = "REJECTED")]_vars

\* the outcome C3 states for an admin action with target t on application a
AdminOutcome(a, t) ==
    IF apps[a].status \in NonTerminal /\ <<apps[a].status, t>> \in AdminEdges
    THEN response'.result = "ok" /\ apps'[a].status = t
    ELSE /\ response'.result = "invalid_transition"
         /\ apps'[a].status = apps[a].status

\* C3: an admin action (select, start-process, schedule-interview,
\* shortlist, release-offer) with target t on an application in status s
\* succeeds and sets the status to t iff s is non-terminal and t is in the
\* admin table for s; otherwise it fails with invalid-transition and the
\* status stays s.
C3_AdminActionIffInTable ==
    [][\A a \in AppIds :
          apps[a].exists =>
            /\ action_select(a) => AdminOutcome(a, "SELECTED")
            /\ action_start_process(a) => AdminOutcome(a, "IN_PROCESS")
            /\ action_schedule_interview(a)
                  => AdminOutcome(a, "INTERVIEW_SCHEDULED")
            /\ action_shortlist(a) => AdminOutcome(a, "SHORTLISTED")
            /\ \A d \in DeadlineDays :
                  action_release_offer(a, d)
                  => AdminOutcome(a, "OFFER_RELEASED")]_vars

\* C3 witness: a shortlist has just succeeded on an application that was in
\* INTERVIEW_SCHEDULED.
C3_Witness ==
    /\ response = [op |-> "shortlist", result |-> "ok"]
    /\ \E a \in AppIds : apps[a].exists /\ apps[a].status = "SHORTLISTED"

\* C4: reject succeeds and sets REJECTED iff the current status is
\* non-terminal; on a terminal status it fails and leaves the status.
C4_RejectIffNonTerminal ==
    [][\A a \in AppIds :
          (apps[a].exists /\ action_reject(a))
          => IF apps[a].status \in NonTerminal
             THEN response'.result = "ok" /\ apps'[a].status = "REJECTED"
             ELSE /\ response'.result = "invalid_transition"
                  /\ apps'[a].status = apps[a].status]_vars

\* C4 witness: a reject has just been refused on an application whose offer
\* the student had declined.
C4_Witness ==
    /\ response = [op |-> "reject", result |-> "invalid_transition"]
    /\ \E a \in AppIds : apps[a].exists /\ apps[a].status = "OFFER_DECLINED"

\* C5: a withdraw by the owner of an APPLIED application sets the status to
\* WITHDRAWN, and a withdraw on a WITHDRAWN application fails with
\* invalid-transition and leaves it WITHDRAWN.
C5_WithdrawSetsWithdrawn ==
    [][\A u \in Students, a \in AppIds :
          (IsOwner(u, a) /\ withdraw_application(u, a))
          => /\ apps[a].status = "APPLIED"
                  => (response'.result = "ok"
                        /\ apps'[a].status = "WITHDRAWN")
             /\ apps[a].status = "WITHDRAWN"
                  => (response'.result = "invalid_transition"
                        /\ apps'[a].status = "WITHDRAWN")]_vars

\* application a holds an open offer whose deadline lies before the clock
OfferExpired(a) ==
    /\ apps[a].exists
    /\ apps[a].status = "OFFER_RELEASED"
    /\ apps[a].offer_deadline # None
    /\ now > apps[a].offer_deadline[1]

\* C6: an accept-offer by the owner of an OFFER_RELEASED application, made
\* at a time later than its offer_deadline, fails with deadline-passed and
\* leaves the status, offer_responded_at and the profile's is_placed flag.
C6_AcceptAfterDeadlineFails ==
    [][\A u \in Students, a \in AppIds :
          (IsOwner(u, a) /\ OfferExpired(a) /\ action_accept_offer(u, a))
          => /\ response'.result = "deadline_passed"
             /\ apps'[a].status = "OFFER_RELEASED"
             /\ apps'[a].offer_responded_at = apps[a].offer_responded_at
             /\ profiles' = profiles]_vars

\* C6 witness: an accept-offer has just been refused as deadline-passed on
\* an application still in OFFER_RELEASED, released with a deadline of one
\* day or more.
C6_Witness ==
    /\ response = [op |-> "accept_offer", result |-> "deadline_passed"]
    /\ \E a \in AppIds :
          /\ OfferExpired(a)
          /\ apps[a].offer_released_at # None
          /\ apps[a].offer_deadline[1] - apps[a].offer_released_at[1]
                >= TicksPerDay

\* the open offer of application a was released with deadline_days = 0: its
\* deadline is the second clock read of the release, less than a day after
\* the first
ReleasedWithZeroDays(a) ==
    /\ apps[a].exists
    /\ apps[a].status = "OFFER_RELEASED"
    /\ apps[a].offer_released_at # None
    /\ apps[a].offer_deadline # None
    /\ apps[a].offer_deadline[1] - apps[a].offer_released_at[1]
          \in 0..(TicksPerDay - 1)

\* C7 as stated: after a release with deadline_days = 0, every accept-offer
\* attempt of the owner fails as deadline-passed, the attempt made at the
\* clock instant of the release included.
C7_AcceptAfterZeroDaysAlwaysFails ==
    [][\A u \in Students, a \in AppIds :
          (IsOwner(u, a) /\ ReleasedWithZeroDays(a)
              /\ action_accept_offer(u, a))
          => response'.result = "deadline_passed"]_vars

\* C7 amended: after a release with deadline_days = 0, an accept-offer
\* attempt of the owner fails as deadline-passed when the clock is strictly
\* later than offer_deadline; an attempt at a clock reading equal to
\* offer_deadline is accepted and sets the status to PLACED.
C7_AcceptAfterZeroDaysFailsOnceLater ==
    [][\A u \in Students, a \in AppIds :
          (IsOwner(u, a) /\ ReleasedWithZeroDays(a)
              /\ action_accept_offer(u, a))
          => IF now > apps[a].offer_deadline[1]
             THEN /\ response'.result = "deadline_passed"
                  /\ apps'[a].status = "OFFER_RELEASED"
             ELSE /\ response'.result = "ok"
                  /\ apps'[a].status = "PLACED"]_vars

\* C7 witness: an accept-offer has just been refused as deadline-passed on
\* an offer released with deadline_days = 0.
C7_Witness ==
    /\ response = [op |-> "accept_offer", result |-> "deadline_passed"]
    /\ \E a \in AppIds :
          ReleasedWithZeroDays(a) /\ now > apps[a].offer_deadline[1]

\* C8: in every state, the owner of every PLACED application has a profile
\* with is_placed = TRUE.
C8_PlacedImpliesFlag ==
    \A a \in AppIds :
        (apps[a].exists /\ apps[a].status = "PLACED")
        => (ProfileOf(apps[a].student_id).exists
              /\ profiles[apps[a].student_id].is_placed)

\* C9: accept-offer, decline-offer and withdraw by a student who is not the
\* owner fail with forbidden, whatever the status and the deadline, and
\* leave the application and the profiles unchanged.
C9_NonOwnerIsForbidden ==
    [][\A u \in Students, a \in AppIds :
          (apps[a].exists /\ apps[a].student_id # u
              /\ (\/ action_accept_offer(u, a)
                  \/ action_decline_offer(u, a)
                  \/ withdraw_application(u, a)))
          => /\ response'.result = "forbidden"
             /\ apps' = apps
             /\ profiles' = profiles]_vars

\* C9 witness: an accept-offer has just been refused as forbidden on an
\* application in a terminal status.
C9_Witness ==
    /\ response = [op |-> "accept_offer", result |-> "forbidden"]
    /\ \E a \in AppIds : apps[a].exists /\ apps[a].status \in Terminal

FailureResults ==
    {"invalid_transition", "forbidden", "not_found", "deadline_passed"}

\* C10: a transition attempt that fails (invalid-transition, forbidden,
\* not-found or deadline-passed) leaves the application's status,
\* offer_released_at, offer_deadline, offer_responded_at and every
\* student's is_placed flag as they were.
C10_FailedAttemptChangesNothing ==
    [][(response'.op # "none" /\ response'.result \in FailureResults)
          => /\ profiles' = profiles
             /\ \A a \in AppIds :
                   /\ apps'[a].exists = apps[a].exists
                   /\ apps[a].exists => OfferAndFlagUnchanged(a)]_vars

\* C10 witness: a release-offer has just been refused on an application
\* that carries the stamps of an earlier release.
C10_Witness ==
    /\ response = [op |-> "release_offer", result |-> "invalid_transition"]
    /\ \E a \in AppIds :
          apps[a].exists /\ apps[a].offer_released_at # None

---------------------------------------------------------------------------
(* Interleaved apply requests.  apply_to_job reads the job, builds the     *)
(* Application object and only then inserts and commits; another request   *)
(* can commit in between.  The handler makes no lookup of an existing      *)
(* application: the unique constraint unique_job_student_application of   *)
(* the table decides at the insert.                                        *)

RequestIds == {"q1", "q2"}
ApplyIds == 1..MaxApps

\* the unique constraint: a row for (job, student) exists
unique_job_student_application(j, u) ==
    \E a \in DOMAIN apps :
        apps[a].exists /\ apps[a].job_id = j /\ apps[a].student_id = u

\* the first half of apply_to_job: the job is read and checked
apply_to_job_check(q, u, j) ==
    /\ \A r \in applying : r.req # q
    /\ IF ~JobOf(j).exists THEN Fail("apply", "not_found") /\ UNCHANGED applying
       ELSE IF ~jobs[j].is_active
       THEN Fail("apply", "inactive_job") /\ UNCHANGED applying
       ELSE /\ applying' = applying \cup {[req |-> q, student |-> u, job |-> j]}
            /\ response' = NoResponse
            /\ UNCHANGED tableVars

\* the insert goes through although a row for (job, student) exists
apply_to_job_commit_no_constraint(r) ==
    /\ r \in applying
    /\ applying' = applying \ {r}
    /\ \E a \in DOMAIN apps :
          /\ ~apps[a].exists
          /\ \A b \in DOMAIN apps : ~apps[b].exists => a <= b
          /\ apps' = [apps EXCEPT ![a] = NewApplication(r.job, r.student)]
    /\ Respond("apply", "ok")
    /\ UNCHANGED <<jobs, profiles, now>>

\* the second half of apply_to_job: db.add, db.commit, IntegrityError -> 409
apply_to_job_commit(r) ==
    /\ r \in applying
    /\ applying' = applying \ {r}
    /\ IF unique_job_student_application(r.job, r.student)
       THEN Fail("apply", "conflict")
       ELSE /\ \E a \in DOMAIN apps :
                  /\ ~apps[a].exists
                  /\ \A b \in DOMAIN apps : ~apps[b].exists => a <= b
                  /\ apps' = [apps EXCEPT
                                 ![a] = NewApplication(r.job, r.student)]
            /\ Respond("apply", "ok")
            /\ UNCHANGED <<jobs, profiles, now>>

ApplyInit ==
    /\ TablesInit(ApplyIds)
    /\ NoCampaigns

\* a request on the application rows while applies are in flight
OnRows(A) ==
    /\ A
    /\ UNCHANGED <<applying, campaignVars>>

ApplyNext ==
    \/ \E q \in RequestIds, u \in Students, j \in Jobs :
          apply_to_job_check(q, u, j) /\ UNCHANGED campaignVars
    \/ \E r \in applying : apply_to_job_commit(r) /\ UNCHANGED campaignVars
    \/ \E u \in Students, a \in ApplyIds : OnRows(withdraw_application(u, a))
    \/ \E a \in ApplyIds : OnRows(action_select(a))
    \/ \E a \in ApplyIds : OnRows(action_reject(a))

ApplySpec == ApplyInit /\ [][ApplyNext]_vars

\* no two rows of the applications table hold the same (job, student)
OnePerJobStudent ==
    \A a, b \in DOMAIN apps :
        (apps[a].exists /\ apps[b].exists
            /\ apps[a].job_id = apps[b].job_id
            /\ apps[a].student_id = apps[b].student_id)
        => a = b

\* C11: every step leads to a state with at most one application per
\* (job, student), and an apply that commits while an application of that
\* student for that job exists, in whatever status and however the requests
\* interleaved, answers conflict and leaves the applications as they were.
C11_OneApplicationPerJobStudent ==
    [][/\ OnePerJobStudent'
       /\ \A r \in applying :
             (apply_to_job_commit(r)
                 /\ \E a \in DOMAIN apps :
                       /\ apps[a].exists
                       /\ apps[a].job_id = r.job
                       /\ apps[a].student_id = r.student)
             => (response'.result = "conflict" /\ apps' = apps)]_vars

\* C11 witness: an apply has just been answered with conflict while the
\* student's application is in a terminal status and another apply request
\* of the same student is still between its check and its commit.
C11_Witness ==
    /\ response = [op |-> "apply", result |-> "conflict"]
    /\ \E a \in DOMAIN apps, r \in applying :
          /\ apps[a].exists
          /\ apps[a].status \in Terminal
          /\ apps[a].student_id = r.student
          /\ apps[a].job_id = r.job

---------------------------------------------------------------------------
(* Campaigns.  One campaign of one channel, created by the channel's       *)
(* create endpoint: status DRAFT and one PENDING delivery log for each     *)
(* recipient.  A log keeps its status and, as flags, whether it holds a    *)
(* provider identifier (twilio_sid, message_sid), an error text, a         *)
(* recording URL, a transcript, and a sent_at stamp.  `configured` is the  *)
(* provider's is_configured(), `contact[r]` tells whether recipient r can  *)
(* be reached (the users row is found, the profile has a phone), and       *)
(* `calls[r]` holds the results the provider gave while the log of r was   *)
(* handled last.  An execution unit is queued by add_task, loads the       *)
(* PENDING logs, handles them one commit at a time and ends.               *)

NewLog ==
    [status |-> "PENDING", sid |-> FALSE, error |-> FALSE,
     recording |-> FALSE, transcript |-> FALSE, sent_at |-> FALSE]

\* one campaign of one of the channels, as create leaves it
OneCampaign(channels) ==
    /\ TablesInit(AppIds)
    /\ \E ch \in channels :
          campaign = [exists |-> TRUE, channel |-> ch, status |-> "DRAFT"]
    /\ logs = [r \in Recipients |-> NewLog]
    /\ units = EmptyBag
    /\ calls = [r \in Recipients |-> <<>>]
    /\ configured \in BOOLEAN
    /\ contact \in [Recipients -> BOOLEAN]
    /\ starting = {}
    /\ rendering = NoRendering

\* the campaign is the only one that has delivery logs
CampaignInit(channels) ==
    /\ OneCampaign(channels)
    /\ others = <<>>

\* what a campaign step leaves alone apart from the rows of the log table
TablesFrame == UNCHANGED <<jobs, apps, profiles, now, applying,
                           configured, contact, rendering>>

\* a step that writes no delivery log of another campaign
CampaignFrame ==
    /\ TablesFrame
    /\ UNCHANGED others

\* a request answered without a write
Refuse(op, r) ==
    /\ Respond(op, r)
    /\ UNCHANGED <<campaign, logs, units, calls>>

IsChannel(ch) == campaign.exists /\ campaign.channel = ch

\* the rows a filter on the log status selects
WithStatus(statuses) == {r \in DOMAIN logs : logs[r].status \in statuses}

\* An execution unit is its position (queued, loop, sending), the logs of
\* its batch it has not handled yet, and the log it is sending.  Units have
\* no identity of their own: `units` is the bag of the units alive.
QueuedUnit == [pc |-> "queued", batch |-> {}, cur |-> "none"]
Units == BagToSet(units)

\* background_tasks.add_task(...)
add_task ==
    /\ BagCardinality(units) < MaxUnits
    /\ units' = units (+) SetToBag({QueuedUnit})

\* unit u goes on as v
Becomes(u, v) == units' = (units (-) SetToBag({u})) (+) SetToBag({v})

\* the first statement of a unit: the query of the PENDING logs
LoadPending(u) ==
    /\ u.pc = "queued"
    /\ Becomes(u, [pc |-> "loop", batch |-> WithStatus({"PENDING"}),
                   cur |-> "none"])
    /\ response' = NoResponse
    /\ UNCHANGED <<campaign, logs, calls, starting>>
    /\ CampaignFrame

\* the unit leaves its loop: finally db.close()
Close(u) == units' = units (-) SetToBag({u})

\* the next log of the for loop is r
Takes(u, r) ==
    /\ u.pc = "loop"
    /\ r \in u.batch

\* what the provider may answer to one send
Answers(channel) ==
    IF ~configured THEN {"error"}
    ELSE IF channel = "whatsapp" THEN {"ok", "63038", "error"}
    ELSE {"ok", "error"}

---------------------------------------------------------------------------
(* Voice campaigns: app/api/campaigns.py and app/api/webhooks.py *)

\* the test of twilio_service.is_configured() is missing
start_campaign_skips_provider_test ==
    /\ IsChannel("voice")
    /\ IF campaign.status = "RUNNING" THEN Refuse("start", "already_running")
       ELSE /\ campaign' = [campaign EXCEPT !.status = "RUNNING"]
            /\ add_task
            /\ Respond("start", "ok")
            /\ UNCHANGED <<logs, calls>>
    /\ UNCHANGED starting
    /\ CampaignFrame

\* POST /campaigns/{id}/start
start_campaign ==
    /\ IsChannel("voice")
    /\ IF campaign.status = "RUNNING" THEN Refuse("start", "already_running")
       ELSE IF ~configured THEN Refuse("start", "not_configured")
       ELSE /\ campaign' = [campaign EXCEPT !.status = "RUNNING"]
            /\ add_task
            /\ Respond("start", "ok")
            /\ UNCHANGED <<logs, calls>>
    /\ UNCHANGED starting
    /\ CampaignFrame

\* the UPDATE of cancel has no campaign_id filter
cancel_campaign_every_campaign ==
    /\ IsChannel("voice")
    /\ campaign' = [campaign EXCEPT !.status = "CANCELLED"]
    /\ logs' = [r \in DOMAIN logs |->
                  IF logs[r].status = "PENDING"
                  THEN [logs[r] EXCEPT !.status = "FAILED"]
                  ELSE logs[r]]
    /\ others' = [r \in DOMAIN others |->
                    IF others[r].status = "PENDING"
                    THEN [others[r] EXCEPT !.status = "FAILED"]
                    ELSE others[r]]
    /\ Respond("cancel", "ok")
    /\ UNCHANGED <<units, calls, starting>>
    /\ TablesFrame

\* POST /campaigns/{id}/cancel: the UPDATE takes the rows with
\* CallLog.campaign_id == campaign_id and status PENDING, no other row
cancel_campaign ==
    /\ IsChannel("voice")
    /\ campaign' = [campaign EXCEPT !.status = "CANCELLED"]
    /\ logs' = [r \in DOMAIN logs |->
                  IF logs[r].status = "PENDING"
                  THEN [logs[r] EXCEPT !.status = "FAILED"]
                  ELSE logs[r]]
    /\ others' = others
    /\ Respond("cancel", "ok")
    /\ UNCHANGED <<units, calls, starting>>
    /\ TablesFrame

retryable_statuses == {"FAILED", "IN_PROGRESS", "BUSY", "NO_ANSWER"}

retry_failed_calls ==
    /\ IsChannel("voice")
    /\ IF ~configured THEN Refuse("retry", "not_configured")
       ELSE IF WithStatus(retryable_statuses) = {}
       THEN Refuse("retry", "nothing_to_retry")
       ELSE /\ logs' = [r \in DOMAIN logs |->
                          IF logs[r].status \in retryable_statuses
                          THEN [logs[r] EXCEPT !.status = "PENDING",
                                               !.sid = FALSE,
                                               !.recording = FALSE,
                                               !.transcript = FALSE]
                          ELSE logs[r]]
            /\ campaign' = [campaign EXCEPT !.status = "RUNNING"]
            /\ add_task
            /\ Respond("retry", "ok")
            /\ UNCHANGED calls
    /\ UNCHANGED starting
    /\ CampaignFrame

execute_campaign_calls_load(u) ==
    /\ IsChannel("voice")
    /\ LoadPending(u)

\* the unit leaves its loop at the first log without a phone
execute_campaign_calls_call_breaks(u, r) ==
    /\ IsChannel("voice")
    /\ Takes(u, r)
    /\ IF ~contact[r]
       THEN /\ Becomes(u, [u EXCEPT !.batch = {}])
            /\ logs' = [logs EXCEPT ![r].status = "FAILED"]
            /\ calls' = [calls EXCEPT ![r] = <<>>]
       ELSE /\ Becomes(u, [u EXCEPT !.batch = @ \ {r}])
            /\ \E answer \in Answers("voice") :
               /\ calls' = [calls EXCEPT ![r] = <<answer>>]
               /\ logs' = IF answer = "ok"
                          THEN [logs EXCEPT ![r].sid = TRUE,
                                            ![r].status = "IN_PROGRESS"]
                          ELSE [logs EXCEPT ![r].status = "FAILED"]
    /\ response' = NoResponse
    /\ UNCHANGED <<campaign, starting>>
    /\ CampaignFrame

\* one pass of the loop: the phone is looked up and the call is initiated
execute_campaign_calls_call(u, r) ==
    /\ IsChannel("voice")
    /\ Takes(u, r)
    /\ Becomes(u, [u EXCEPT !.batch = @ \ {r}])
    /\ IF ~contact[r]
       THEN /\ logs' = [logs EXCEPT ![r].status = "FAILED"]
            /\ calls' = [calls EXCEPT ![r] = <<>>]
       ELSE \E answer \in Answers("voice") :
            /\ calls' = [calls EXCEPT ![r] = <<answer>>]
            /\ logs' = IF answer = "ok"
                       THEN [logs EXCEPT ![r].sid = TRUE,
                                         ![r].status = "IN_PROGRESS"]
                       ELSE [logs EXCEPT ![r].status = "FAILED"]
    /\ response' = NoResponse
    /\ UNCHANGED <<campaign, starting>>
    /\ CampaignFrame

\* the loop is over: the voice unit writes nothing more
execute_campaign_calls_end(u) ==
    /\ IsChannel("voice")
    /\ u.pc = "loop"
    /\ u.batch = {}
    /\ Close(u)
    /\ response' = NoResponse
    /\ UNCHANGED <<campaign, logs, calls, starting>>
    /\ CampaignFrame

\* the provider calls back about a call it has placed for the log of r
CallPlaced(r) ==
    /\ r \in DOMAIN calls
    /\ calls[r] # <<>>
    /\ calls[r][Len(calls[r])] = "ok"

\* "queued" is a status the mapping does not know
CallStatuses ==
    {"queued", "ringing", "completed", "busy", "no-answer", "failed"}

status_mapping ==
    [cs \in {"initiated", "ringing", "in-progress", "answered", "completed",
             "busy", "no-answer", "failed", "canceled"} |->
        CASE cs \in {"initiated", "ringing", "in-progress", "answered"}
                -> "IN_PROGRESS"
          [] cs = "completed" -> "COMPLETED"
          [] cs = "busy" -> "BUSY"
          [] cs = "no-answer" -> "NO_ANSWER"
          [] cs \in {"failed", "canceled"} -> "FAILED"]

\* the guard that keeps a COMPLETED log is missing
status_webhook_overwrites(r, CallStatus) ==
    /\ IsChannel("voice")
    /\ CallPlaced(r)
    /\ LET new_status == IF CallStatus \in DOMAIN status_mapping
                         THEN status_mapping[CallStatus]
                         ELSE logs[r].status
       IN logs' = [logs EXCEPT ![r].status = new_status]
    /\ response' = NoResponse
    /\ UNCHANGED <<campaign, units, calls, starting>>
    /\ CampaignFrame

\* POST /webhooks/status
status_webhook(r, CallStatus) ==
    /\ IsChannel("voice")
    /\ CallPlaced(r)
    /\ LET new_status == IF CallStatus \in DOMAIN status_mapping
                         THEN status_mapping[CallStatus]
                         ELSE logs[r].status
       IN logs' = IF logs[r].status # "COMPLETED" \/ new_status = "COMPLETED"
                  THEN [logs EXCEPT ![r].status = new_status]
                  ELSE logs
    /\ response' = NoResponse
    /\ UNCHANGED <<campaign, units, calls, starting>>
    /\ CampaignFrame

recording_webhook(r) ==
    /\ IsChannel("voice")
    /\ CallPlaced(r)
    /\ logs' = [logs EXCEPT ![r].recording = TRUE]
    /\ response' = NoResponse
    /\ UNCHANGED <<campaign, units, calls, starting>>
    /\ CampaignFrame

transcription_webhook(r) ==
    /\ IsChannel("voice")
    /\ CallPlaced(r)
    /\ logs' = [logs EXCEPT ![r].transcript = TRUE,
                            ![r].status = "COMPLETED"]
    /\ response' = NoResponse
    /\ UNCHANGED <<campaign, units, calls, starting>>
    /\ CampaignFrame

---------------------------------------------------------------------------
(* Email campaigns: app/api/email_campaigns.py *)

start_email_campaign ==
    /\ IsChannel("email")
    /\ IF campaign.status = "RUNNING" THEN Refuse("start", "already_running")
       ELSE IF ~configured THEN Refuse("start", "not_configured")
       ELSE /\ campaign' = [campaign EXCEPT !.status = "RUNNING"]
            /\ add_task
            /\ Respond("start", "ok")
            /\ UNCHANGED <<logs, calls>>
    /\ UNCHANGED starting
    /\ CampaignFrame

\* the retry resets the SENT logs with the FAILED ones
retry_failed_emails_resets_sent ==
    /\ IsChannel("email")
    /\ IF ~configured THEN Refuse("retry", "not_configured")
       ELSE IF WithStatus({"FAILED"}) = {}
       THEN Refuse("retry", "nothing_to_retry")
       ELSE /\ logs' = [r \in DOMAIN logs |->
                          IF logs[r].status \in {"FAILED", "SENT"}
                          THEN [logs[r] EXCEPT !.status = "PENDING",
                                               !.error = FALSE]
                          ELSE logs[r]]
            /\ campaign' = [campaign EXCEPT !.status = "RUNNING"]
            /\ add_task
            /\ Respond("retry", "ok")
            /\ UNCHANGED calls
    /\ UNCHANGED starting
    /\ CampaignFrame

\* POST /email-campaigns/{id}/retry
retry_failed_emails ==
    /\ IsChannel("email")
    /\ IF ~configured THEN Refuse("retry", "not_configured")
       ELSE IF WithStatus({"FAILED"}) = {}
       THEN Refuse("retry", "nothing_to_retry")
       ELSE /\ logs' = [r \in DOMAIN logs |->
                          IF logs[r].status = "FAILED"
                          THEN [logs[r] EXCEPT !.status = "PENDING",
                                               !.error = FALSE]
                          ELSE logs[r]]
            /\ campaign' = [campaign EXCEPT !.status = "RUNNING"]
            /\ add_task
            /\ Respond("retry", "ok")
            /\ UNCHANGED calls
    /\ UNCHANGED starting
    /\ CampaignFrame

cancel_email_campaign ==
    /\ IsChannel("email")
    /\ campaign' = [campaign EXCEPT !.status = "CANCELLED"]
    /\ logs' = [r \in DOMAIN logs |->
                  IF logs[r].status = "PENDING"
                  THEN [logs[r] EXCEPT !.status = "FAILED", !.error = TRUE]
                  ELSE logs[r]]
    /\ others' = others
    /\ Respond("cancel", "ok")
    /\ UNCHANGED <<units, calls, starting>>
    /\ TablesFrame

execute_email_campaign_load(u) ==
    /\ IsChannel("email")
    /\ LoadPending(u)

\* the first commit of a pass: the log is marked SENDING
execute_email_campaign_sending(u, r) ==
    /\ IsChannel("email")
    /\ Takes(u, r)
    /\ Becomes(u, [pc |-> "sending", batch |-> u.batch \ {r}, cur |-> r])
    /\ logs' = [logs EXCEPT ![r].status = "SENDING"]
    /\ response' = NoResponse
    /\ UNCHANGED <<campaign, calls, starting>>
    /\ CampaignFrame

\* a log whose mail failed is put back at the end of the loop's list
execute_email_campaign_send_again(u) ==
    /\ IsChannel("email")
    /\ u.pc = "sending"
    /\ LET r == u.cur
       IN IF ~contact[r]
          THEN /\ logs' = [logs EXCEPT ![r].status = "FAILED",
                                       ![r].error = TRUE]
               /\ calls' = [calls EXCEPT ![r] = <<>>]
               /\ Becomes(u, [u EXCEPT !.pc = "loop", !.cur = "none"])
          ELSE \E answer \in Answers("email") :
               /\ calls' = [calls EXCEPT ![r] = <<answer>>]
               /\ logs' = IF answer = "ok"
                          THEN [logs EXCEPT ![r].status = "SENT",
                                            ![r].sent_at = TRUE]
                          ELSE [logs EXCEPT ![r].status = "FAILED",
                                            ![r].error = TRUE]
               /\ Becomes(u, [pc |-> "loop", cur |-> "none",
                              batch |-> IF answer = "ok" THEN u.batch
                                        ELSE u.batch \cup {r}])
    /\ response' = NoResponse
    /\ UNCHANGED <<campaign, starting>>
    /\ CampaignFrame

\* the second commit of a pass: the student is looked up, the mail is sent
execute_email_campaign_send(u) ==
    /\ IsChannel("email")
    /\ u.pc = "sending"
    /\ LET r == u.cur
       IN IF ~contact[r]
          THEN /\ logs' = [logs EXCEPT ![r].status = "FAILED",
                                       ![r].error = TRUE]
               /\ calls' = [calls EXCEPT ![r] = <<>>]
          ELSE \E answer \in Answers("email") :
               /\ calls' = [calls EXCEPT ![r] = <<answer>>]
               /\ logs' = IF answer = "ok"
                          THEN [logs EXCEPT ![r].status = "SENT",
                                            ![r].sent_at = TRUE]
                          ELSE [logs EXCEPT ![r].status = "FAILED",
                                            ![r].error = TRUE]
    /\ Becomes(u, [u EXCEPT !.pc = "loop", !.cur = "none"])
    /\ response' = NoResponse
    /\ UNCHANGED <<campaign, starting>>
    /\ CampaignFrame

\* a FAILED log keeps the campaign from COMPLETED
execute_email_campaign_end_all_sent(u) ==
    /\ IsChannel("email")
    /\ u.pc = "loop"
    /\ u.batch = {}
    /\ campaign' = IF WithStatus({"PENDING", "SENDING", "FAILED"}) = {}
                   THEN [campaign EXCEPT !.status = "COMPLETED"]
                   ELSE campaign
    /\ Close(u)
    /\ response' = NoResponse
    /\ UNCHANGED <<logs, calls, starting>>
    /\ CampaignFrame

\* after the loop: COMPLETED when no log is PENDING or SENDING
execute_email_campaign_end(u) ==
    /\ IsChannel("email")
    /\ u.pc = "loop"
    /\ u.batch = {}
    /\ campaign' = IF WithStatus({"PENDING", "SENDING"}) = {}
                   THEN [campaign EXCEPT !.status = "COMPLETED"]
                   ELSE campaign
    /\ Close(u)
    /\ response' = NoResponse
    /\ UNCHANGED <<logs, calls, starting>>
    /\ CampaignFrame

---------------------------------------------------------------------------
(* Messaging campaigns: app/api/whatsapp_campaigns.py *)

\* the RUNNING check is missing
start_whatsapp_campaign_unchecked ==
    /\ IsChannel("whatsapp")
    /\ IF ~configured THEN Refuse("start", "not_configured")
       ELSE /\ campaign' = [campaign EXCEPT !.status = "RUNNING"]
            /\ add_task
            /\ Respond("start", "ok")
            /\ UNCHANGED <<logs, calls>>
    /\ UNCHANGED starting
    /\ CampaignFrame

start_whatsapp_campaign ==
    /\ IsChannel("whatsapp")
    /\ IF campaign.status = "RUNNING" THEN Refuse("start", "already_running")
       ELSE IF ~configured THEN Refuse("start", "not_configured")
       ELSE /\ campaign' = [campaign EXCEPT !.status = "RUNNING"]
            /\ add_task
            /\ Respond("start", "ok")
            /\ UNCHANGED <<logs, calls>>
    /\ UNCHANGED starting
    /\ CampaignFrame

\* the early return of a retry that found no FAILED log is missing
retry_failed_whatsapp_messages_requeues ==
    /\ IsChannel("whatsapp")
    /\ logs' = [r \in DOMAIN logs |->
                  IF logs[r].status = "FAILED"
                  THEN [logs[r] EXCEPT !.status = "PENDING",
                                       !.error = FALSE]
                  ELSE logs[r]]
    /\ campaign' = IF campaign.status \in {"COMPLETED", "FAILED"}
                   THEN [campaign EXCEPT !.status = "RUNNING"]
                   ELSE campaign
    /\ add_task
    /\ Respond("retry", IF WithStatus({"FAILED"}) = {}
                        THEN "nothing_to_retry" ELSE "ok")
    /\ UNCHANGED calls
    /\ UNCHANGED starting
    /\ CampaignFrame

\* a COMPLETED campaign is not set back to RUNNING
retry_failed_whatsapp_messages_keeps_status ==
    /\ IsChannel("whatsapp")
    /\ IF WithStatus({"FAILED"}) = {}
       THEN Refuse("retry", "nothing_to_retry")
       ELSE /\ logs' = [r \in DOMAIN logs |->
                          IF logs[r].status = "FAILED"
                          THEN [logs[r] EXCEPT !.status = "PENDING",
                                               !.error = FALSE]
                          ELSE logs[r]]
            /\ campaign' = IF campaign.status \in {"FAILED"}
                           THEN [campaign EXCEPT !.status = "RUNNING"]
                           ELSE campaign
            /\ add_task
            /\ Respond("retry", "ok")
            /\ UNCHANGED calls
    /\ UNCHANGED starting
    /\ CampaignFrame

\* POST /whatsapp-campaigns/{id}/retry
retry_failed_whatsapp_messages ==
    /\ IsChannel("whatsapp")
    /\ IF WithStatus({"FAILED"}) = {}
       THEN Refuse("retry", "nothing_to_retry")
       ELSE /\ logs' = [r \in DOMAIN logs |->
                          IF logs[r].status = "FAILED"
                          THEN [logs[r] EXCEPT !.status = "PENDING",
                                               !.error = FALSE]
                          ELSE logs[r]]
            /\ campaign' = IF campaign.status \in {"COMPLETED", "FAILED"}
                           THEN [campaign EXCEPT !.status = "RUNNING"]
                           ELSE campaign
            /\ add_task
            /\ Respond("retry", "ok")
            /\ UNCHANGED calls
    /\ UNCHANGED starting
    /\ CampaignFrame

\* the statuses Twilio reports for a message that was submitted
MessageStatuses == {"sent", "delivered", "failed"}

\* new_status.upper()
Upper(s) ==
    CASE s = "sent" -> "SENT"
      [] s = "delivered" -> "DELIVERED"
      [] s = "failed" -> "FAILED"

\* Twilio gives an error code with a failed message
CarriesError(s) == s = "failed"

sync_whatsapp_status ==
    /\ IsChannel("whatsapp")
    /\ LET selected == WithStatus({"SENT", "queued", "undelivered"})
       IN IF selected = {} THEN Refuse("sync", "nothing_to_sync")
          ELSE \E fetched \in [selected -> MessageStatuses] :
               /\ logs' = [r \in DOMAIN logs |->
                             IF r \in selected /\ logs[r].sid
                             THEN [logs[r] EXCEPT
                                      !.status = Upper(fetched[r]),
                                      !.error = @ \/ CarriesError(fetched[r])]
                             ELSE logs[r]]
               /\ Respond("sync", "ok")
               /\ UNCHANGED <<campaign, units, calls>>
    /\ UNCHANGED starting
    /\ CampaignFrame

execute_whatsapp_campaign_load(u) ==
    /\ IsChannel("whatsapp")
    /\ LoadPending(u)

\* the write of a pass whose send succeeded
MessageSent(r, answers) ==
    /\ calls' = [calls EXCEPT ![r] = answers]
    /\ logs' = [logs EXCEPT ![r].status = "SENT", ![r].sid = TRUE,
                            ![r].sent_at = TRUE]

\* the write of a pass whose send failed
MessageFailed(r, answers) ==
    /\ calls' = [calls EXCEPT ![r] = answers]
    /\ logs' = [logs EXCEPT ![r].status = "FAILED", ![r].error = TRUE]

\* every failure is answered by a second send
execute_whatsapp_campaign_send_retries_any(u, r) ==
    /\ IsChannel("whatsapp")
    /\ Takes(u, r)
    /\ Becomes(u, [u EXCEPT !.batch = @ \ {r}])
    /\ IF ~contact[r]
       THEN MessageFailed(r, <<>>)
       ELSE \E first \in Answers("whatsapp") :
            IF first = "ok" THEN MessageSent(r, <<first>>)
            ELSE \E second \in Answers("whatsapp") :
                 IF second = "ok"
                 THEN MessageSent(r, <<first, second>>)
                 ELSE MessageFailed(r, <<first, second>>)
    /\ response' = NoResponse
    /\ UNCHANGED <<campaign, starting>>
    /\ CampaignFrame

\* one pass of the loop: the phone is looked up, the message is sent, and
\* sent once more after the rate-limit error 63038
execute_whatsapp_campaign_send(u, r) ==
    /\ IsChannel("whatsapp")
    /\ Takes(u, r)
    /\ Becomes(u, [u EXCEPT !.batch = @ \ {r}])
    /\ IF ~contact[r]
       THEN MessageFailed(r, <<>>)
       ELSE \E first \in Answers("whatsapp") :
            IF first = "ok" THEN MessageSent(r, <<first>>)
            ELSE IF first = "63038"
            THEN \E second \in Answers("whatsapp") :
                 IF second = "ok"
                 THEN MessageSent(r, <<first, second>>)
                 ELSE MessageFailed(r, <<first, second>>)
            ELSE MessageFailed(r, <<first>>)
    /\ response' = NoResponse
    /\ UNCHANGED <<campaign, starting>>
    /\ CampaignFrame

\* after the loop: COMPLETED when no log is PENDING
execute_whatsapp_campaign_end(u) ==
    /\ IsChannel("whatsapp")
    /\ u.pc = "loop"
    /\ u.batch = {}
    /\ campaign' = IF WithStatus({"PENDING"}) = {}
                   THEN [campaign EXCEPT !.status = "COMPLETED"]
                   ELSE campaign
    /\ Close(u)
    /\ response' = NoResponse
    /\ UNCHANGED <<logs, calls, starting>>
    /\ CampaignFrame

---------------------------------------------------------------------------
(* Admin requests handled one at a time, execution units and provider      *)
(* callbacks running between them.                                         *)

CampaignSpecInit == CampaignInit(Channels)

UnitStep ==
    \/ \E u \in Units : execute_campaign_calls_load(u)
    \/ \E u \in Units, r \in Recipients : execute_campaign_calls_call(u, r)
    \/ \E u \in Units : execute_campaign_calls_end(u)
    \/ \E u \in Units : execute_email_campaign_load(u)
    \/ \E u \in Units, r \in Recipients :
          execute_email_campaign_sending(u, r)
    \/ \E u \in Units : execute_email_campaign_send(u)
    \/ \E u \in Units : execute_email_campaign_end(u)
    \/ \E u \in Units : execute_whatsapp_campaign_load(u)
    \/ \E u \in Units, r \in Recipients :
          execute_whatsapp_campaign_send(u, r)
    \/ \E u \in Units : execute_whatsapp_campaign_end(u)

Callback ==
    \/ \E r \in Recipients, cs \in CallStatuses : status_webhook(r, cs)
    \/ \E r \in Recipients : recording_webhook(r)
    \/ \E r \in Recipients : transcription_webhook(r)

CampaignNext ==
    \/ start_campaign
    \/ retry_failed_calls
    \/ cancel_campaign
    \/ start_email_campaign
    \/ retry_failed_emails
    \/ cancel_email_campaign
    \/ start_whatsapp_campaign
    \/ retry_failed_whatsapp_messages
    \/ sync_whatsapp_status
    \/ UnitStep
    \/ Callback

CampaignSpec == CampaignSpecInit /\ [][CampaignNext]_vars

---------------------------------------------------------------------------
(* Properties of the campaign requests *)

StartRequest ==
    \/ start_campaign
    \/ start_email_campaign
    \/ start_whatsapp_campaign

RetryRequest ==
    \/ retry_failed_calls
    \/ retry_failed_emails
    \/ retry_failed_whatsapp_messages

\* C12: a start request on a RUNNING campaign, in each channel, is rejected
\* and leaves the campaign, the delivery logs and the execution units as they
\* were; a start that succeeds queues one unit, and the start request that
\* comes right after a successful one is rejected and queues none.
C12_StartOnRunningIsRejected ==
    [][StartRequest =>
          /\ campaign.status = "RUNNING"
                => /\ response'.result = "already_running"
                   /\ campaign' = campaign
                   /\ logs' = logs
                   /\ units' = units
          /\ response'.result = "ok"
                => BagCardinality(units') = BagCardinality(units) + 1
          /\ response = [op |-> "start", result |-> "ok"]
                => /\ response'.result = "already_running"
                   /\ units' = units]_vars

\* C12 witness: a start has just been rejected on a RUNNING campaign whose
\* one execution unit is still queued.
C12_Witness ==
    /\ response = [op |-> "start", result |-> "already_running"]
    /\ campaign.status = "RUNNING"
    /\ units = SetToBag({QueuedUnit})

---------------------------------------------------------------------------
(* Interleaved start requests.  A start handler reads the campaign, tests  *)
(* its status and the provider, and only then assigns RUNNING, commits and *)
(* queues the unit; nothing holds the row in between, so another start     *)
(* request can run its checks before the first one commits.                *)

\* start_campaign up to its checks: the campaign is read, nothing is written
start_campaign_check(q) ==
    /\ IsChannel("voice")
    /\ q \notin starting
    /\ IF campaign.status = "RUNNING"
       THEN Refuse("start", "already_running") /\ UNCHANGED starting
       ELSE IF ~configured
       THEN Refuse("start", "not_configured") /\ UNCHANGED starting
       ELSE /\ starting' = starting \cup {q}
            /\ response' = NoResponse
            /\ UNCHANGED <<campaign, logs, units, calls>>
    /\ CampaignFrame

\* start_campaign from its assignment on: RUNNING is committed, the unit queued
start_campaign_commit(q) ==
    /\ IsChannel("voice")
    /\ q \in starting
    /\ starting' = starting \ {q}
    /\ campaign' = [campaign EXCEPT !.status = "RUNNING"]
    /\ add_task
    /\ Respond("start", "ok")
    /\ UNCHANGED <<logs, calls>>
    /\ CampaignFrame

\* start_email_campaign up to its checks: the campaign is read, nothing is written
start_email_campaign_check(q) ==
    /\ IsChannel("email")
    /\ q \notin starting
    /\ IF campaign.status = "RUNNING"
       THEN Refuse("start", "already_running") /\ UNCHANGED starting
       ELSE IF ~configured
       THEN Refuse("start", "not_configured") /\ UNCHANGED starting
       ELSE /\ starting' = starting \cup {q}
            /\ response' = NoResponse
            /\ UNCHANGED <<campaign, logs, units, calls>>
    /\ CampaignFrame

\* the status is read again under the write and the request gives way
start_email_campaign_commit_rechecks(q) ==
    /\ IsChannel("email")
    /\ q \in starting
    /\ starting' = starting \ {q}
    /\ IF campaign.status = "RUNNING" THEN Refuse("start", "already_running")
       ELSE /\ campaign' = [campaign EXCEPT !.status = "RUNNING"]
            /\ add_task
            /\ Respond("start", "ok")
            /\ UNCHANGED <<logs, calls>>
    /\ CampaignFrame

\* start_email_campaign from its assignment on: RUNNING is committed, the unit queued
start_email_campaign_commit(q) ==
    /\ IsChannel("email")
    /\ q \in starting
    /\ starting' = starting \ {q}
    /\ campaign' = [campaign EXCEPT !.status = "RUNNING"]
    /\ add_task
    /\ Respond("start", "ok")
    /\ UNCHANGED <<logs, calls>>
    /\ CampaignFrame

\* start_whatsapp_campaign up to its checks: the campaign is read, nothing is written
start_whatsapp_campaign_check(q) ==
    /\ IsChannel("whatsapp")
    /\ q \notin starting
    /\ IF campaign.status = "RUNNING"
       THEN Refuse("start", "already_running") /\ UNCHANGED starting
       ELSE IF ~configured
       THEN Refuse("start", "not_configured") /\ UNCHANGED starting
       ELSE /\ starting' = starting \cup {q}
            /\ response' = NoResponse
            /\ UNCHANGED <<campaign, logs, units, calls>>
    /\ CampaignFrame

\* start_whatsapp_campaign from its assignment on: RUNNING is committed, the unit queued
start_whatsapp_campaign_commit(q) ==
    /\ IsChannel("whatsapp")
    /\ q \in starting
    /\ starting' = starting \ {q}
    /\ campaign' = [campaign EXCEPT !.status = "RUNNING"]
    /\ add_task
    /\ Respond("start", "ok")
    /\ UNCHANGED <<logs, calls>>
    /\ CampaignFrame

RaceInit == CampaignInit(Channels)

RaceNext ==
    \/ \E q \in RequestIds : start_campaign_check(q)
    \/ \E q \in RequestIds : start_campaign_commit(q)
    \/ \E q \in RequestIds : start_email_campaign_check(q)
    \/ \E q \in RequestIds : start_email_campaign_commit(q)
    \/ \E q \in RequestIds : start_whatsapp_campaign_check(q)
    \/ \E q \in RequestIds : start_whatsapp_campaign_commit(q)
    \/ UnitStep

RaceSpec == RaceInit /\ [][RaceNext]_vars

StartCheck(q) ==
    \/ start_campaign_check(q)
    \/ start_email_campaign_check(q)
    \/ start_whatsapp_campaign_check(q)

StartCommit(q) ==
    \/ start_campaign_commit(q)
    \/ start_email_campaign_commit(q)
    \/ start_whatsapp_campaign_commit(q)

\* C13: a start request that runs its checks on a campaign that is not
\* RUNNING (the provider being configured) passes them, and a request that
\* has passed them commits RUNNING and queues an execution unit whatever the
\* status has become in between; so two interleaved starts queue two units.
C13_InterleavedStartsBothQueue ==
    [][\A q \in RequestIds :
          /\ (StartCheck(q) /\ campaign.status # "RUNNING" /\ configured)
                => q \in starting'
          /\ StartCommit(q)
                => /\ response'.result = "ok"
                   /\ campaign'.status = "RUNNING"
                   /\ BagCardinality(units')
                         = BagCardinality(units) + 1]_vars

\* C13 witness: two execution units of the one campaign are alive, the
\* second queued by a start that has just been answered ok.
C13_Witness ==
    /\ response = [op |-> "start", result |-> "ok"]
    /\ starting = {}
    /\ BagCardinality(units) = 2

\* C14: with the admin requests handled one at a time, at most one
\* execution unit of the campaign is queued or running in every state, also
\* when start and retry are mixed while a unit is running.
C14_AtMostOneUnit ==
    BagCardinality(units) <= 1

---------------------------------------------------------------------------
(* Dispatch without interference: the only admin request is start, so a    *)
(* unit runs from its load to its end with no other operation on the       *)
(* campaign.  A unit is a background task of the server's thread pool and  *)
(* is run to its end; the provider delivers the callbacks of the calls it  *)
(* has placed.                                                             *)

DispatchInit == CampaignInit(Channels)

DispatchNext ==
    \/ start_campaign
    \/ start_email_campaign
    \/ start_whatsapp_campaign
    \/ UnitStep
    \/ Callback

DispatchSpec ==
    /\ DispatchInit
    /\ [][DispatchNext]_vars
    /\ WF_vars(UnitStep)
    /\ WF_vars(Callback)

\* the provider answered ok to the last send made for the log of r
Succeeded(r) ==
    /\ calls[r] # <<>>
    /\ calls[r][Len(calls[r])] = "ok"

\* C15: when the execution unit of an email or messaging campaign ends, no
\* other operation having interleaved, the campaign is COMPLETED and every
\* log is SENT if the provider succeeded for its recipient and FAILED
\* otherwise; a FAILED log does not keep the campaign from COMPLETED.
C15_UnitEndsSentOrFailedCompleted ==
    [][\A u \in Units :
          (execute_email_campaign_end(u) \/ execute_whatsapp_campaign_end(u))
          => /\ campaign'.status = "COMPLETED"
             /\ \A r \in Recipients :
                   logs'[r].status
                      = IF Succeeded(r) THEN "SENT" ELSE "FAILED"]_vars

\* C15 witness: the unit has ended, one log is SENT, the other is FAILED
\* after one send refused with an error other than the rate limit, and the
\* campaign is COMPLETED.
C15_Witness ==
    /\ campaign.status = "COMPLETED"
    /\ units = EmptyBag
    /\ \E r, t \in Recipients :
          /\ logs[r].status = "SENT"
          /\ logs[t].status = "FAILED"
          /\ calls[t] = <<"error">>

\* the campaign is started, no unit is waiting or has a log left in its
\* batch, and no delivery log is PENDING
BatchGoneThrough ==
    /\ campaign.status = "RUNNING"
    /\ \A u \in Units : u.pc = "loop" /\ u.batch = {}
    /\ WithStatus({"PENDING"}) = {}

\* C16: in every channel, once a started campaign's unit has gone through
\* its batch and no delivery log is PENDING, the campaign status eventually
\* becomes COMPLETED.
C16_EventuallyCompleted ==
    BatchGoneThrough ~> (campaign.status = "COMPLETED")

\* the step of unit u is the pass of its loop that serves the log of r
Pass(u, r) ==
    \/ execute_campaign_calls_call(u, r)
    \/ u.cur = r /\ execute_email_campaign_send(u)
    \/ execute_whatsapp_campaign_send(u, r)

\* the step of unit u is the end of the unit
UnitEnd(u) ==
    \/ execute_campaign_calls_end(u)
    \/ execute_email_campaign_end(u)
    \/ execute_whatsapp_campaign_end(u)

\* in the pass just made the recipient r had no contact field, or the last
\* provider call made for r failed
PassFailed(r) ==
    \/ ~contact[r]
    \/ calls'[r] = <<>>
    \/ calls'[r][Len(calls'[r])] # "ok"

\* C17: in every channel a pass of the unit over a recipient whose contact
\* field is missing or whose provider call fails marks the log FAILED and
\* leaves the unit in its loop with the rest of its batch; when a unit ends,
\* no other operation having interleaved, no log is PENDING or SENDING.
C17_FailureMarksFailedAndContinues ==
    [][\A u \in Units :
          /\ \A r \in Recipients :
                Pass(u, r) /\ PassFailed(r)
                => /\ logs'[r].status = "FAILED"
                   /\ [pc |-> "loop", batch |-> u.batch \ {r}, cur |-> "none"]
                         \in BagToSet(units')
          /\ UnitEnd(u) => WithStatus({"PENDING", "SENDING"}) = {}]_vars

\* C17 witness: the unit of a voice campaign has ended after a log without
\* a phone and a log whose call the provider refused; both are FAILED.
C17_Witness ==
    /\ IsChannel("voice")
    /\ campaign.status = "RUNNING"
    /\ units = EmptyBag
    /\ \E r, t \in Recipients :
          /\ ~contact[r] /\ logs[r].status = "FAILED" /\ calls[r] = <<>>
          /\ contact[t] /\ logs[t].status = "FAILED"
          /\ calls[t] = <<"error">>

\* C18: a pass of the messaging unit over a recipient with a phone invokes
\* the provider send once or twice; twice if and only if the first send
\* failed with the rate-limit error 63038; the log is FAILED when the last
\* send failed, whatever its error, and SENT when it succeeded; a first
\* failure with another error leaves the log FAILED after one send.
C18_AtMostOneResend ==
    [][\A u \in Units : \A r \in Recipients :
          execute_whatsapp_campaign_send(u, r) /\ contact[r]
          => LET sends == calls'[r]
             IN /\ Len(sends) \in {1, 2}
                /\ (Len(sends) = 2) <=> (sends[1] = "63038")
                /\ logs'[r].status
                      = IF sends[Len(sends)] = "ok" THEN "SENT" ELSE "FAILED"
                /\ sends[1] = "error"
                   => sends = <<"error">> /\ logs'[r].status = "FAILED"]_vars

\* C18 witness: one log is FAILED after a rate-limited send and a second
\* send that was rate-limited too, the other is FAILED after one send that
\* failed with another error.
C18_Witness ==
    /\ IsChannel("whatsapp")
    /\ \E r, t \in Recipients :
          /\ logs[r].status = "FAILED" /\ calls[r] = <<"63038", "63038">>
          /\ logs[t].status = "FAILED" /\ calls[t] = <<"error">>

\* the statuses of the campaign's channel that a retry resets
Retryable ==
    IF campaign.channel = "voice" THEN retryable_statuses ELSE {"FAILED"}

\* C19: a retry request changes only delivery logs whose status is in the
\* retryable set of the channel (FAILED; for voice also IN_PROGRESS, BUSY,
\* NO_ANSWER) and sets each of them to PENDING; every other log, among them
\* the PENDING, SENDING, SENT and COMPLETED ones, keeps its status and its
\* fields; a refused retry changes no log.
C19_RetryResetsOnlyRetryable ==
    [][RetryRequest
       => \A r \in Recipients :
             IF logs[r].status \in Retryable /\ response'.result = "ok"
             THEN logs'[r].status = "PENDING"
             ELSE logs'[r] = logs[r]]_vars

\* C19 witness: a retry has just reset a log to PENDING and the other log,
\* served before the retry, is still SENT with its time of sending.
C19_Witness ==
    /\ response = [op |-> "retry", result |-> "ok"]
    /\ \E r, t \in Recipients :
          /\ logs[r].status = "PENDING"
          /\ logs[t].status = "SENT" /\ logs[t].sent_at

\* C20: after a retry request, in each of the three channels, every log the
\* retry reset to PENDING carries no artifact of the previous attempt: no
\* provider identifier of the message or call, no recording, no transcript
\* and no error text.
C20_RetryClearsArtifacts ==
    [][RetryRequest
       => \A r \in Recipients :
             logs[r].status \in Retryable /\ response'.result = "ok"
             => /\ logs'[r].status = "PENDING"
                /\ ~logs'[r].sid
                /\ ~logs'[r].recording
                /\ ~logs'[r].transcript
                /\ ~logs'[r].error]_vars

\* the campaign has no delivery log in a retryable status
NothingToRetry == WithStatus(Retryable) = {}

\* C21: a retry on a campaign with no delivery log in a retryable status
\* reports that nothing was retried (retried_count = 0), leaves the campaign
\* status and every delivery log unchanged and queues no execution unit, in
\* each channel and for every campaign status.
C21_EmptyRetryReportsZero ==
    [][RetryRequest /\ NothingToRetry
       => /\ response'.result = "nothing_to_retry"
          /\ UNCHANGED <<campaign, logs, units>>]_vars

\* C21 amended: a retry on a campaign with no delivery log in a retryable
\* status leaves the campaign status and every delivery log unchanged and
\* queues no execution unit, in each channel and for every campaign status;
\* it reports retried_count = 0, except that a voice or email retry whose
\* provider is not configured is rejected as not configured.
C21_EmptyRetryChangesNothing ==
    [][RetryRequest /\ NothingToRetry
       => /\ response'.result
                = IF ~configured /\ campaign.channel # "whatsapp"
                  THEN "not_configured" ELSE "nothing_to_retry"
          /\ UNCHANGED <<campaign, logs, units>>]_vars

\* C21 witness: a retry has just reported that nothing was retried on a
\* COMPLETED campaign whose logs are all SENT; no unit is queued.
C21_Witness ==
    /\ response = [op |-> "retry", result |-> "nothing_to_retry"]
    /\ campaign.status = "COMPLETED"
    /\ units = EmptyBag
    /\ \A r \in Recipients : logs[r].status = "SENT"

---------------------------------------------------------------------------
(* Cancel requests between the steps of the execution units: a campaign    *)
(* is started and cancelled, no retry is made, and the log table holds     *)
(* rows of another campaign as well.                                       *)

CancelInit ==
    /\ OneCampaign(Channels)
    /\ others \in [Recipients ->
                     {NewLog, [NewLog EXCEPT !.status = "FAILED"]}]

CancelNext ==
    \/ start_campaign
    \/ cancel_campaign
    \/ start_email_campaign
    \/ cancel_email_campaign
    \/ start_whatsapp_campaign
    \/ UnitStep
    \/ Callback

CancelSpec == CancelInit /\ [][CancelNext]_vars

CancelRequest ==
    \/ cancel_campaign
    \/ cancel_email_campaign

\* C22: a cancel request sets the campaign status to CANCELLED and, in the
\* same step, sets to FAILED every delivery log of the campaign that is
\* PENDING; every log of the campaign in another status and every log of
\* another campaign is left unchanged.
C22_CancelFailsPendingOnly ==
    [][CancelRequest
       => /\ campaign'.status = "CANCELLED"
          /\ \A r \in DOMAIN logs :
                IF logs[r].status = "PENDING"
                THEN logs'[r].status = "FAILED"
                ELSE logs'[r] = logs[r]
          /\ others' = others]_vars

\* C22 witness: a cancel has just been answered; one log of the campaign is
\* FAILED without a send, one has been sent to and is not FAILED, and a log
\* of another campaign is still PENDING.
C22_Witness ==
    /\ response = [op |-> "cancel", result |-> "ok"]
    /\ campaign.status = "CANCELLED"
    /\ \E r, t \in Recipients :
          /\ logs[r].status = "FAILED" /\ calls[r] = <<>> /\ contact[r]
          /\ logs[t].status \in {"SENT", "IN_PROGRESS"}
    /\ \E r \in DOMAIN others : others[r].status = "PENDING"

\* the log of r was set to FAILED and has not been reset since: it is
\* FAILED, or the email unit u has marked it SENDING over the error text
\* that the cancel wrote
FlippedToFailed(u, r) ==
    \/ logs[r].status = "FAILED"
    \/ u.cur = r /\ logs[r].status = "SENDING" /\ logs[r].error

\* the step of unit u invokes the provider send for the log of r
SendInvoked(u, r) ==
    /\ \/ execute_campaign_calls_call(u, r)
       \/ u.cur = r /\ execute_email_campaign_send(u)
       \/ execute_whatsapp_campaign_send(u, r)
    /\ calls'[r] # <<>>

\* C23: with no retry made, the provider send is never invoked for a
\* delivery log that a cancel has flipped from PENDING to FAILED, also when
\* the cancel commits while a unit that loaded the log is mid-flight.
C23_NoSendAfterCancel ==
    [][\A u \in Units : \A r \in Recipients :
          FlippedToFailed(u, r) => ~SendInvoked(u, r)]_vars

\* C24: the status of a FAILED delivery log changes only in a retry request
\* of an administrator, which sets it to PENDING: no step of an execution
\* unit, provider callback, status sync or other request takes a log out of
\* FAILED.
C24_FailedLeavesOnlyByRetry ==
    [][\A r \in DOMAIN logs :
          logs[r].status = "FAILED" /\ logs'[r].status # "FAILED"
          => RetryRequest /\ logs'[r].status = "PENDING"]_vars

\* C25: a start or a cancel request on a campaign that is COMPLETED or
\* CANCELLED leaves the campaign status and the delivery logs as they were,
\* and so does a retry request on such a campaign when it has no retryable
\* log.
C25_TerminalCampaignUnchanged ==
    [][/\ campaign.status \in {"COMPLETED", "CANCELLED"}
       /\ \/ StartRequest
          \/ CancelRequest
          \/ RetryRequest /\ NothingToRetry
       => /\ campaign'.status = campaign.status
          /\ logs' = logs]_vars

\* C26: a start request on a campaign that is not RUNNING, the provider
\* being configured, sets the campaign to RUNNING and queues exactly one
\* execution unit; a start request while the provider is not configured is
\* rejected, changes neither the campaign nor its delivery logs and queues
\* no unit.
C26_StartQueuesOneOrRejects ==
    [][StartRequest
       => /\ campaign.status # "RUNNING" /\ configured
             => /\ response'.result = "ok"
                /\ campaign'.status = "RUNNING"
                /\ units' = units (+) SetToBag({QueuedUnit})
                /\ logs' = logs
          /\ ~configured
             => /\ response'.result # "ok"
                /\ UNCHANGED <<campaign, logs, units>>]_vars

\* C26 witness: a start has just been rejected because the provider is not
\* configured; the campaign is still DRAFT, its logs PENDING, no unit queued.
C26_Witness ==
    /\ response = [op |-> "start", result |-> "not_configured"]
    /\ ~configured
    /\ campaign.status = "DRAFT"
    /\ units = EmptyBag
    /\ \A r \in Recipients : logs[r] = NewLog

\* C27: whatever status callbacks the provider delivers, in any order and
\* with duplicates, a status callback on a call log that is COMPLETED leaves
\* it COMPLETED, the callback that reports completed included.
C27_CompletedSurvivesStatusCallbacks ==
    [][\A r \in Recipients : \A cs \in CallStatuses :
          status_webhook(r, cs) /\ logs[r].status = "COMPLETED"
          => logs'[r].status = "COMPLETED"]_vars

\* C27 witness: a call log is COMPLETED with its transcript, after the call
\* was placed, while the other call is still IN_PROGRESS.
C27_Witness ==
    /\ IsChannel("voice")
    /\ \E r, t \in Recipients :
          /\ logs[r].status = "COMPLETED" /\ logs[r].transcript
          /\ calls[r] = <<"ok">>
          /\ logs[t].status = "IN_PROGRESS"

\* the statuses the specification gives a delivery log
LogStatuses ==
    {"PENDING", "SENDING", "SENT", "COMPLETED", "FAILED", "BUSY",
     "NO_ANSWER", "IN_PROGRESS"}

\* C28: in every reachable state the status of every delivery log, in every
\* channel, is one of PENDING, SENDING, SENT, COMPLETED, FAILED, BUSY,
\* NO_ANSWER, IN_PROGRESS; no operation stores another value.
C28_LogStatusInEnumeration ==
    \A r \in DOMAIN logs : logs[r].status \in LogStatuses

---------------------------------------------------------------------------
(* Creation, update and deletion of a campaign.  The tables hold at most   *)
(* one campaign at a time; payload.student_ids names distinct students     *)
(* that exist in the users table.                                          *)

\* the delivery logs that the loop over payload.student_ids adds
LogsFor(ids) == [r \in ids |-> NewLog]

\* POST of a new campaign: the campaign row is DRAFT, one PENDING log is
\* added for each student id of the payload
Create(channel, ids) ==
    /\ ~campaign.exists
    /\ campaign' = [exists |-> TRUE, channel |-> channel, status |-> "DRAFT"]
    /\ logs' = LogsFor(ids)
    /\ calls' = [r \in ids |-> <<>>]
    /\ Respond("create", "ok")
    /\ UNCHANGED <<units, starting>>
    /\ CampaignFrame

create_campaign(ids) == Create("voice", ids)

create_email_campaign(ids) == Create("email", ids)

create_whatsapp_campaign(ids) == Create("whatsapp", ids)

\* PUT /campaigns/{id}: on a DRAFT campaign the logs are deleted and built
\* again with CallLog(student_name=..., student_email=...), two keywords
\* the CallLog class does not have: the constructor raises TypeError and
\* the request ends with the transaction rolled back
update_campaign(ids) ==
    /\ IsChannel("voice")
    /\ IF campaign.status = "DRAFT" /\ ids # {}
       THEN Refuse("update", "error")
       ELSE /\ logs' = IF campaign.status = "DRAFT" THEN LogsFor({}) ELSE logs
            /\ calls' = IF campaign.status = "DRAFT" THEN LogsFor({}) ELSE calls
            /\ Respond("update", "ok")
            /\ UNCHANGED <<campaign, units>>
    /\ UNCHANGED starting
    /\ CampaignFrame

\* PUT /email-campaigns/{id}: on a DRAFT campaign the logs are deleted and
\* none is added
update_email_campaign(ids) ==
    /\ IsChannel("email")
    /\ logs' = IF campaign.status = "DRAFT" THEN LogsFor({}) ELSE logs
    /\ calls' = IF campaign.status = "DRAFT" THEN LogsFor({}) ELSE calls
    /\ Respond("update", "ok")
    /\ UNCHANGED <<campaign, units, starting>>
    /\ CampaignFrame

\* PUT /whatsapp-campaigns/{id}: on a DRAFT campaign the logs are deleted
\* and one PENDING log is added for each student id of the payload
update_whatsapp_campaign(ids) ==
    /\ IsChannel("whatsapp")
    /\ logs' = IF campaign.status = "DRAFT" THEN LogsFor(ids) ELSE logs
    /\ calls' = IF campaign.status = "DRAFT"
                THEN [r \in ids |-> <<>>] ELSE calls
    /\ Respond("update", "ok")
    /\ UNCHANGED <<campaign, units, starting>>
    /\ CampaignFrame

\* DELETE of a campaign: refused when COMPLETED; else the campaign row goes
\* and its logs with it (cascade), and a unit of the campaign finds no row
\* left to write
Delete(channel) ==
    /\ IsChannel(channel)
    /\ IF campaign.status = "COMPLETED"
       THEN Refuse("delete", "completed")
       ELSE /\ campaign' = NoCampaign
            /\ logs' = LogsFor({})
            /\ calls' = LogsFor({})
            /\ units' = EmptyBag
            /\ Respond("delete", "ok")
    /\ UNCHANGED starting
    /\ CampaignFrame

delete_campaign == Delete("voice")

delete_email_campaign == Delete("email")

delete_whatsapp_campaign == Delete("whatsapp")

LifecycleInit ==
    /\ TablesInit(AppIds)
    /\ campaign = NoCampaign
    /\ logs = LogsFor({})
    /\ units = EmptyBag
    /\ calls = LogsFor({})
    /\ configured \in BOOLEAN
    /\ contact \in [Recipients -> BOOLEAN]
    /\ starting = {}
    /\ others = <<>>
    /\ rendering = NoRendering

LifecycleNext ==
    \/ \E ids \in SUBSET Recipients : create_campaign(ids)
    \/ \E ids \in SUBSET Recipients : create_email_campaign(ids)
    \/ \E ids \in SUBSET Recipients : create_whatsapp_campaign(ids)
    \/ \E ids \in SUBSET Recipients : update_campaign(ids)
    \/ \E ids \in SUBSET Recipients : update_email_campaign(ids)
    \/ \E ids \in SUBSET Recipients : update_whatsapp_campaign(ids)
    \/ delete_campaign
    \/ delete_email_campaign
    \/ delete_whatsapp_campaign
    \/ StartRequest
    \/ CancelRequest
    \/ RetryRequest
    \/ UnitStep

LifecycleSpec ==
    /\ LifecycleInit
    /\ [][LifecycleNext]_vars
    /\ WF_vars(UnitStep)

CreateRequest(ids) ==
    \/ create_campaign(ids)
    \/ create_email_campaign(ids)
    \/ create_whatsapp_campaign(ids)

UpdateRequest(ids) ==
    \/ update_campaign(ids)
    \/ update_email_campaign(ids)
    \/ update_whatsapp_campaign(ids)

\* the campaign has one delivery log for each of the students ids, no other
\* log, and every log is PENDING
OnePendingLogEach(ids) ==
    /\ DOMAIN logs' = ids
    /\ \A r \in ids : logs'[r].status = "PENDING"

\* C29: after a campaign is created, and after every update of a campaign
\* that is DRAFT, the campaign owns exactly one delivery log for each target
\* recipient of the payload of that request, each of them PENDING, in each
\* channel; an update of a campaign that is not DRAFT leaves the logs and
\* their statuses unchanged.
C29_LogsFollowPayload ==
    [][\A ids \in SUBSET Recipients :
          /\ CreateRequest(ids) => OnePendingLogEach(ids)
          /\ UpdateRequest(ids)
             => IF campaign.status = "DRAFT"
                THEN OnePendingLogEach(ids)
                ELSE logs' = logs]_vars

DeleteRequest ==
    \/ delete_campaign
    \/ delete_email_campaign
    \/ delete_whatsapp_campaign

\* C30: a campaign that has reached COMPLETED is never deleted: from then on
\* the campaign exists, whatever requests (delete, cancel, start, retry)
\* follow.
C30_CompletedIsNeverDeleted ==
    [](campaign.exists /\ campaign.status = "COMPLETED"
       => [](campaign.exists))

---------------------------------------------------------------------------
(* Template rendering.  A text is a sequence of characters; a word         *)
(* character stands for one identifier (a run of \w characters), so that   *)
(* a run of several word characters is a longer identifier that is the     *)
(* name of no variable.  `{{role}}` is a placeholder of the pre-built      *)
(* templates that the execution units give no value.  Both execution       *)
(* units build the same four variables from the row of the student; the    *)
(* full name and the email address are text the student chose.             *)

WordChars == {"student_name", "email", "role"}

Chars == {"{", "}", " "} \cup WordChars

Templates == UNION {[1..n -> Chars] : n \in 0..MaxLen}

\* the text {{key}}
Placeholder(key) == <<"{", "{", key, "}", "}">>

FullNames == {<<"Asha">>, Placeholder("email")}

Emails == {<<"asha@x.in">>, Placeholder("student_name")}

\* variables = {"student_name": ..., "email": ..., "branch": ..., "cgpa": ...}
Variables(full_name, email) ==
    [student_name |-> full_name, email |-> email,
     branch |-> <<"CSE">>, cgpa |-> <<>>]

\* the keys of `variables` in the order in which the dict yields them
VariableItems == <<"student_name", "email", "branch", "cgpa">>

\* the last index of the run of \w characters that starts at i (i - 1 when
\* there is none)
RunEnd(s, i) ==
    CHOOSE j \in (i - 1)..Len(s) :
        /\ \A k \in i..j : s[k] \in WordChars
        /\ j = Len(s) \/ s[j + 1] \notin WordChars

\* r'\{\{(\w+)\}\}' matches at index i
Matches(s, i) ==
    /\ i + 1 <= Len(s)
    /\ s[i] = "{"
    /\ s[i + 1] = "{"
    /\ LET j == RunEnd(s, i + 2)
       IN /\ j >= i + 2
          /\ j + 2 <= Len(s)
          /\ s[j + 1] = "}"
          /\ s[j + 2] = "}"

\* the match that starts at i ends at this index
MatchEnd(s, i) == RunEnd(s, i + 2) + 2

\* variables.get(var_name, match.group(0))
replacer(s, i, variables) ==
    LET group1 == SubSeq(s, i + 2, MatchEnd(s, i) - 2)
    IN IF Len(group1) = 1 /\ group1[1] \in DOMAIN variables
       THEN variables[group1[1]]
       ELSE SubSeq(s, i, MatchEnd(s, i))

\* re.sub from index i on: leftmost matches, none overlapping, the text
\* put in place of a match is not scanned
RECURSIVE re_sub(_, _, _)
re_sub(s, i, variables) ==
    IF i > Len(s) THEN <<>>
    ELSE IF Matches(s, i)
         THEN replacer(s, i, variables)
                  \o re_sub(s, MatchEnd(s, i) + 1, variables)
         ELSE <<s[i]>> \o re_sub(s, i + 1, variables)

\* EmailService.render_template
render_template(template, variables) == re_sub(template, 1, variables)

\* str.replace(old, new) from index i on
RECURSIVE replace(_, _, _, _)
replace(s, i, old, new) ==
    IF i > Len(s) THEN <<>>
    ELSE IF i + Len(old) - 1 <= Len(s)
            /\ SubSeq(s, i, i + Len(old) - 1) = old
         THEN new \o replace(s, i + Len(old), old, new)
         ELSE <<s[i]>> \o replace(s, i + 1, old, new)

\* for key, value in variables.items(): message_body = message_body.replace(..)
RECURSIVE substitute(_, _, _)
substitute(message_body, k, variables) ==
    IF k > Len(VariableItems) THEN message_body
    ELSE substitute(replace(message_body, 1,
                            Placeholder(VariableItems[k]),
                            variables[VariableItems[k]]),
                    k + 1, variables)

\* the message body execute_whatsapp_campaign sends
message_body(body_text, variables) == substitute(body_text, 1, variables)

\* what a rendering step leaves alone
RenderFrame ==
    UNCHANGED <<jobs, apps, profiles, now, response, applying, campaign,
                logs, units, calls, configured, contact, starting, others>>

\* send_email renders the body for the recipient
RenderEmail ==
    /\ rendering.email = <<>>
    /\ rendering' =
         [rendering EXCEPT
            !.email = <<render_template(rendering.template,
                                        rendering.variables)>>]
    /\ RenderFrame

\* execute_whatsapp_campaign renders the body for the recipient
RenderWhatsApp ==
    /\ rendering.whatsapp = <<>>
    /\ rendering' =
         [rendering EXCEPT
            !.whatsapp = <<message_body(rendering.template,
                                        rendering.variables)>>]
    /\ RenderFrame

RenderInit ==
    /\ TablesInit(AppIds)
    /\ NoCampaignRows
    /\ \E t \in Templates, n \in FullNames, e \in Emails :
          rendering = [template |-> t, variables |-> Variables(n, e),
                       email |-> <<>>, whatsapp |-> <<>>]

RenderNext == RenderEmail \/ RenderWhatsApp

RenderSpec == RenderInit /\ [][RenderNext]_vars

\* the indices at which a placeholder starts
PlaceholderStarts(t) == {i \in 1..Len(t) : Matches(t, i)}

\* index i lies in the placeholder that starts at p
Within(t, p, i) == p <= i /\ i <= MatchEnd(t, p)

\* the name between the braces of the placeholder that starts at p
TokenAt(t, p) == SubSeq(t, p + 2, MatchEnd(t, p) - 2)

\* the placeholder that starts at p names a variable of the mapping
Known(t, p, m) == Len(TokenAt(t, p)) = 1 /\ TokenAt(t, p)[1] \in DOMAIN m

\* what index i of the template contributes to the rendered text
Piece(t, i, m) ==
    IF \E p \in PlaceholderStarts(t) : Within(t, p, i) /\ Known(t, p, m)
    THEN IF i \in PlaceholderStarts(t) THEN m[TokenAt(t, i)[1]] ELSE <<>>
    ELSE <<t[i]>>

RECURSIVE Pieces(_, _, _)
Pieces(t, i, m) ==
    IF i > Len(t) THEN <<>> ELSE Piece(t, i, m) \o Pieces(t, i + 1, m)

\* the template with every known placeholder replaced by its value and
\* everything else verbatim
Rendered(t, m) == Pieces(t, 1, m)

\* C31: in both channels the rendered text is the template with each
\* placeholder whose token is in the mapping replaced by its value and every
\* other placeholder, like the literal text, left verbatim.
C31_KnownReplacedUnknownVerbatim ==
    /\ rendering.email # <<>>
         => rendering.email[1]
              = Rendered(rendering.template, rendering.variables)
    /\ rendering.whatsapp # <<>>
         => rendering.whatsapp[1]
              = Rendered(rendering.template, rendering.variables)

\* C39: rendering is single-pass, so the email renderer and the messaging
\* substitution loop give the same text for the same template and mapping,
\* also when a value contains placeholder text.
C39_BothChannelsRenderAlike ==
    rendering.email # <<>> /\ rendering.whatsapp # <<>>
        => rendering.email[1] = rendering.whatsapp[1]

---------------------------------------------------------------------------
(* Interleaved transition requests.  A handler of app/api/actions.py reads *)
(* the application row, validates the transition on the row it read, and   *)
(* its commit writes the columns it assigned (UPDATE ... WHERE id = ...).  *)
(* No row is locked and no version is compared, so another request may     *)
(* commit between the read and the commit.  `applying` holds here the      *)
(* reject and accept-offer requests that have validated and not yet        *)
(* committed.                                                              *)

\* action_reject up to its terminal test: the row is read, nothing written
action_reject_check(q, a) ==
    /\ \A r \in applying : r.req # q
    /\ IF ~apps[a].exists
       THEN Fail("reject", "not_found") /\ UNCHANGED applying
       ELSE IF apps[a].status \in TERMINAL_STATES
       THEN Fail("reject", "invalid_transition") /\ UNCHANGED applying
       ELSE /\ applying' = applying
                   \cup {[req |-> q, op |-> "reject", app |-> a,
                          student |-> apps[a].student_id]}
            /\ response' = NoResponse
            /\ UNCHANGED tableVars

\* action_reject from its assignment on: REJECTED is committed
action_reject_commit(r) ==
    /\ r \in applying
    /\ r.op = "reject"
    /\ applying' = applying \ {r}
    /\ apps' = [apps EXCEPT ![r.app].status = "REJECTED"]
    /\ Respond("reject", "ok")
    /\ UNCHANGED <<jobs, profiles, now>>

\* action_accept_offer up to its deadline check
action_accept_offer_check(q, u, a) ==
    /\ \A r \in applying : r.req # q
    /\ IF ~apps[a].exists
       THEN Fail("accept_offer", "not_found") /\ UNCHANGED applying
       ELSE IF apps[a].student_id # u
       THEN Fail("accept_offer", "forbidden") /\ UNCHANGED applying
       ELSE IF ~validate_transition(apps[a].status, "PLACED",
                                    STUDENT_TRANSITIONS)
       THEN Fail("accept_offer", "invalid_transition") /\ UNCHANGED applying
       ELSE IF DeadlinePassed(a)
       THEN Fail("accept_offer", "deadline_passed") /\ UNCHANGED applying
       ELSE /\ applying' = applying
                   \cup {[req |-> q, op |-> "accept_offer", app |-> a,
                          student |-> u]}
            /\ response' = NoResponse
            /\ UNCHANGED tableVars

\* action_accept_offer from its assignments on: PLACED, the stamp and the
\* flag of the profile are committed
action_accept_offer_commit(r) ==
    /\ r \in applying
    /\ r.op = "accept_offer"
    /\ applying' = applying \ {r}
    /\ apps' = [apps EXCEPT ![r.app].status = "PLACED",
                            ![r.app].offer_responded_at = At(now)]
    /\ profiles' = IF ProfileOf(r.student).exists
                   THEN [profiles EXCEPT ![r.student].is_placed = TRUE]
                   ELSE profiles
    /\ Respond("accept_offer", "ok")
    /\ UNCHANGED <<jobs, now>>

TransitionInit ==
    /\ TablesInit(AppIds)
    /\ NoCampaigns

TransitionNext ==
    \/ \E u \in Students, j \in Jobs : OnTables(apply_to_job(u, j))
    \/ \E a \in AppIds : OnTables(action_select(a))
    \/ \E a \in AppIds : OnTables(action_start_process(a))
    \/ \E a \in AppIds : OnTables(action_schedule_interview(a))
    \/ \E a \in AppIds : OnTables(action_shortlist(a))
    \/ \E a \in AppIds :
          OnTables(action_release_offer(a, DEFAULT_DEADLINE_DAYS))
    \/ OnTables(Tick)
    \/ \E q \in RequestIds, a \in AppIds :
          action_reject_check(q, a) /\ UNCHANGED campaignVars
    \/ \E r \in applying : action_reject_commit(r) /\ UNCHANGED campaignVars
    \/ \E q \in RequestIds, u \in Students, a \in AppIds :
          action_accept_offer_check(q, u, a) /\ UNCHANGED campaignVars
    \/ \E r \in applying :
          action_accept_offer_commit(r) /\ UNCHANGED campaignVars

TransitionSpec == TransitionInit /\ [][TransitionNext]_vars

\* C32: when transition requests on one application interleave, every
\* committed change of its status leaves a non-terminal status along an edge
\* of the transition graph (or to REJECTED); a commit validated against a
\* status that was replaced meanwhile is not applied, so REJECTED is never
\* overwritten with PLACED.
C32_InterleavedCommitsFollowGraph ==
    [][\A a \in AppIds :
          (apps[a].exists /\ apps'[a].status # apps[a].status)
          => /\ apps[a].status \in NonTerminal
             /\ \/ <<apps[a].status, apps'[a].status>>
                      \in AdminEdges \cup StudentEdges
                \/ apps'[a].status = "REJECTED"]_vars

\* C33: in an email or messaging campaign the provider send is never
\* invoked for a recipient whose delivery log is SENT or carries the stamp of
\* an earlier successful send, whatever start, retry and cancel requests
\* and execution units interleave: no recipient gets a second delivery.
C33_NoSendAfterSuccess ==
    [][\A u \in Units : \A r \in Recipients :
          campaign.channel \in {"email", "whatsapp"} /\ SendInvoked(u, r)
          => logs[r].status # "SENT" /\ ~logs[r].sent_at]_vars

\* C34: once a cancel has committed CANCELLED, the campaign status changes
\* only in a start or a retry request of an administrator: no step of an
\* execution unit, also of one that was started before the cancel, takes
\* the campaign out of CANCELLED.
C34_CancelledUntilStartOrRetry ==
    [][campaign.status = "CANCELLED" /\ campaign'.status # "CANCELLED"
          => StartRequest \/ RetryRequest]_vars

\* C35: in every committed state an email or messaging campaign that is
\* COMPLETED has no delivery log in PENDING and, for email, none in SENDING,
\* whatever execution units and start, retry and cancel requests interleave.
C35_CompletedHasNothingPending ==
    campaign.exists /\ campaign.status = "COMPLETED"
    => /\ IsChannel("whatsapp") => WithStatus({"PENDING"}) = {}
       /\ IsChannel("email") => WithStatus({"PENDING", "SENDING"}) = {}

\* the retry request resets at least one delivery log
RetryResets ==
    /\ RetryRequest
    /\ \E r \in Recipients : logs'[r].status # logs[r].status

---------------------------------------------------------------------------
(* The administrator's requests on a campaign (start, retry, cancel)       *)
(* handled one at a time, with the execution units running between them.   *)

UnitInit == CampaignInit(Channels)

UnitNext ==
    \/ StartRequest
    \/ RetryRequest
    \/ CancelRequest
    \/ UnitStep

UnitSpec == UnitInit /\ [][UnitNext]_vars

\* a step of the execution unit u
StepOf(u) ==
    \/ execute_campaign_calls_load(u)
    \/ \E r \in Recipients : execute_campaign_calls_call(u, r)
    \/ execute_campaign_calls_end(u)
    \/ execute_email_campaign_load(u)
    \/ \E r \in Recipients : execute_email_campaign_sending(u, r)
    \/ execute_email_campaign_send(u)
    \/ execute_email_campaign_end(u)
    \/ execute_whatsapp_campaign_load(u)
    \/ \E r \in Recipients : execute_whatsapp_campaign_send(u, r)
    \/ execute_whatsapp_campaign_end(u)

\* an upper bound of the steps the unit u has left
StepsLeft(u) ==
    CASE u.pc = "queued" -> 2 * Cardinality(Recipients) + 2
      [] u.pc = "sending" -> 2 * Cardinality(u.batch) + 2
      [] OTHER -> 2 * Cardinality(u.batch) + 1

\* the logs the unit u has loaded and not handled yet
Unhandled(u) ==
    IF u.pc = "queued" THEN Recipients
    ELSE IF u.pc = "sending" THEN u.batch \cup {u.cur}
    ELSE u.batch

\* C37: every execution unit terminates.  A unit that is alive can always
\* take a step; each step of a unit either ends it (its loop being over) or
\* leaves it with fewer steps left and no log to handle that it had not
\* before, so that each log of the batch it loaded is handled at most once;
\* a pass invokes the provider send at most twice (one extra send); and no
\* other operation changes a unit that is alive: requests only queue units.
C37_UnitsTerminate ==
    [][/\ \A u \in Units : ENABLED StepOf(u)
       /\ \A u \in Units :
             StepOf(u)
             => \/ u.pc = "loop" /\ u.batch = {}
                      /\ units' = units (-) SetToBag({u})
                \/ \E v \in BagToSet(units') :
                      /\ units' = (units (-) SetToBag({u})) (+) SetToBag({v})
                      /\ StepsLeft(v) < StepsLeft(u)
                      /\ Unhandled(v) \subseteq Unhandled(u)
       /\ \A u \in Units : \A r \in Recipients :
             Pass(u, r)
             => /\ Len(calls'[r]) <= 2
                /\ \E v \in BagToSet(units') :
                      /\ units' = (units (-) SetToBag({u})) (+) SetToBag({v})
                      /\ r \notin Unhandled(v)
       /\ ~UnitStep
             => units' = units \/ units' = units (+) SetToBag({QueuedUnit})]_vars


\* C37 witness: a second unit has ended after a first one, both having
\* served their batches while a retry arrived: the campaign is COMPLETED, no
\* unit is alive, and a log was sent at its second handling.
C37_Witness ==
    /\ units = EmptyBag
    /\ campaign.status = "COMPLETED"
    /\ \E r, t \in Recipients :
          /\ logs[r].status = "SENT" /\ logs[r].error
          /\ logs[t].status = "FAILED" /\ Len(calls[t]) = 2


\* C38: whatever deadline_days the release-offer request was given, an
\* offer_deadline that is set is not earlier than offer_released_at: every
\* released offer has a moment at which its owner can still accept it.
C38_DeadlineNotBeforeRelease ==
    \A a \in AppIds :
        (apps[a].exists /\ apps[a].offer_deadline # None)
        => /\ apps[a].offer_released_at # None
           /\ apps[a].offer_deadline[1] >= apps[a].offer_released_at[1]

====
